---- MODULE Spec2Model ----
(***************************************************************************)
(* Data plane of the options-flow backend: the vendor WebSocket session,   *)
(* the bounded trade store, the periodic REST backfill and its triggers,   *)
(* and the live broadcaster.                                               *)
(*                                                                         *)
(* Node.js runs one callback at a time, so every action below is one       *)
(* synchronous section of the code: from the event (timer, socket event,   *)
(* HTTP request, resolution of an awaited promise) to the next await.      *)
(***************************************************************************)
EXTENDS Integers, Sequences, FiniteSets, Bags, TLC

\* ---------------------------------------------------------------- bounds
\* The store cap (100 000 in the source), scaled.
MAX_TRADES == 3
\* The age threshold of the sweep (120 000 ms in the source), in clock units.
MaxAge == 1
\* The clock runs from 0 to MaxTime.
MaxTime == 2
\* Flows built over a behaviour (the sequence counter stops here).
MaxFlows == 4
\* fetchOptionsFromREST invocations that can be in flight together.
MaxRuns == 2
\* Underlyings fetched by one backfill run (18 in the source).
NumTickers == 1
\* Contracts per snapshot page (limit: 100 in the source).
PageLimit == 1
\* maxPagesPerTicker for a small / a populated store (5 / 10 in the source).
MaxPagesSmall == 1
MaxPagesLarge == 2
\* contractsPerTicker for a small / a populated store (200 / 500).
ContractsSmall == 1
ContractsLarge == 2
\* Contracts per processContracts batch (500 in the source).
BatchSize == 1
\* Requests of one page that the model counts (the count saturates here).
MaxTries == 3
\* Store sizes under which GET / and GET /stats start a backfill (100, 10).
SmallStoreFlow == 2
SmallStoreStats == 1
\* Detached batches that can wait together.
MaxBackground == 2
\* Vendor sockets that can exist together.
MaxSockets == 2
\* Subscriber sockets of the live WebSocket server.
NumClients == 2
\* Entries the sweep detector keeps per contract (10 in the source).
RingKeep == 2
\* Ticks of one contract classified over a behaviour.
MaxTicks == 3
\* Flows the store holds while queries run.
MaxStored == 2
\* Largest page and limit a query asks for.
MaxPage == 2
MaxLimit == 2
\* MIN_REQUEST_INTERVAL (200 ms in the source), in units of the spot clock.
MinInterval == 2
\* The spot clock runs to MaxSpotTime; getSpotPrice calls that miss the cache.
MaxSpotTime == 6
MaxSpotCalls == 4
\* Largest price, bid and ask of a quote (in ticks).
MaxQuote == 5

Tickers == 1 .. NumTickers
SockIds == 1 .. MaxSockets
Clients == 1 .. NumClients

VARIABLES
    tradesStore,      \* the Map, as the sequence of its values in insertion order
    nextSeq,          \* sequence number of the next flow built
    lastFlow,         \* the last flow built and broadcast, if any
    clearedCount,     \* records the last age sweep deleted; -1: no sweep ran yet
    now,              \* the clock
    intervalOn,       \* the 2 s warm-up has fired and installed the 10 s interval
    isFetching,       \* the interval's in-flight flag
    runs,             \* bag of the fetchOptionsFromREST invocations in flight
    background,       \* bag of processContracts batches running detached
    socks,            \* vendor sockets, by slot
    polygonWS,        \* the socket the module variable refers to (0: null)
    isConnected,
    reconnectTimers,  \* pending 5 s reconnect timers
    clients,          \* the Set of subscriber sockets, in insertion order
    clientSubscriptions, \* the Map socket -> Set of tickers
    readyState,       \* each subscriber socket's readyState
    lastBroadcast,    \* what the last step's broadcastTradeUpdate did, if it ran
    lastAck,          \* the frame the last step sent to a subscriber, if any
    optedOut,         \* history: per subscriber, the tickers it unsubscribed from
                      \* while its set was exactly that ticker, since its last
                      \* subscribe-ticker
    recentTradesMap,  \* the sweep detector's ring of one contract
    ticks,            \* the ticks of that contract classified so far, with the result
    flowRecords,      \* the store's values, with the attributes a query reads
    lastReq,          \* the last GET /api/options-flow request, if no write followed
    lastResp,         \* its response
    prevResp,         \* the response before it, if it answered the same request
    spotNow,          \* Date.now() as getSpotPrice reads it
    lastSpotPriceRequest,
    spotSleepers,     \* bag of the wake-up times of the callers that wait
    spotRequests,     \* start times of the vendor spot-price requests, in order
    sideFlow,         \* path, quote and side label of the last flow built
    optionsChain,     \* the option chain the vendor returns for the GEX ticker
    gexResponse,      \* the last answer of GET /api/gex/:ticker to that chain
    parsedSymbol,     \* the last OCC symbol parsed, with what it was built from
    barsReply,        \* the last GET /api/options/bars/:contractId/range and its answer
    scanSnapshot,     \* the contracts the vendor's snapshots hold, with their ticker
    scanResponse      \* the last answer of GET /api/live-scanner to that snapshot

storeVars == << tradesStore, nextSeq, lastFlow, clearedCount >>
runVars == << intervalOn, isFetching, runs, background >>
wsVars == << socks, polygonWS, isConnected, reconnectTimers >>
bcVars == << clients, clientSubscriptions, readyState, lastBroadcast, lastAck,
            optedOut >>
classifierVars == << recentTradesMap, ticks >>
\* The state of the enrichment and analytics components, which the ingestion
\* and broadcaster specifications leave alone.
queryVars == << flowRecords, lastReq, lastResp, prevResp >>
spotVars == << spotNow, lastSpotPriceRequest, spotSleepers, spotRequests >>
gexVars == << optionsChain, gexResponse >>
routeVars == << parsedSymbol, barsReply, scanSnapshot, scanResponse >>
enrichVars == << classifierVars, queryVars, spotVars, sideFlow, gexVars, routeVars >>

vars == << tradesStore, nextSeq, lastFlow, clearedCount, now, intervalOn,
           isFetching, runs, background, socks, polygonWS, isConnected,
           reconnectTimers, clients, clientSubscriptions, readyState,
           lastBroadcast, lastAck, optedOut, enrichVars >>

NoFlow == [seq |-> 0, path |-> "none", atCap |-> FALSE, stored |-> FALSE]

Min(S) == CHOOSE x \in S : \A y \in S : x <= y

MinOf(a, b) == IF a <= b THEN a ELSE b

\* ---------------------------------------------------------------- store

\* The age sweep: delete every record whose timestamp is before t - MaxAge.
ageSweepKeepsOneTooOld(store, t) ==
    SelectSeq(store, LAMBDA tr : ~(tr.timestamp < t - MaxAge - 1))

ageSweep(store, t) ==
    SelectSeq(store, LAMBDA tr : ~(tr.timestamp < t - MaxAge))

\* processOptionsTrade's store section: set, then delete the first key if the
\* size exceeds the cap.
wsInsertEvictsNewest(store, rec) ==
    LET added == Append(store, rec)
    IN  IF Len(added) > MAX_TRADES THEN SubSeq(added, 1, Len(added) - 1) ELSE added

wsInsert(store, rec) ==
    LET added == Append(store, rec)
    IN  IF Len(added) > MAX_TRADES THEN Tail(added) ELSE added

\* processContracts' store section: set only under the cap.
restInsertNoCap(store, rec) ==
    Append(store, rec)

restInsert(store, rec) ==
    IF Len(store) < MAX_TRADES THEN Append(store, rec) ELSE store

Keys(store) == {store[i].seq : i \in 1 .. Len(store)}

\* ---------------------------------------------------------------- clock

Tick ==
    /\ now < MaxTime
    /\ now' = now + 1
    /\ UNCHANGED << bcVars, enrichVars, storeVars, runVars, wsVars >>

\* ---------------------------------------------------------------- vendor WebSocket session

Live(s) == socks[s] # "none"

LiveSocks == {s \in SockIds : Live(s)}

\* initPolygonWebSocket: return if a socket exists and is connected, else
\* create a socket and keep it in polygonWS. Handlers are attached per socket.
initPolygonWebSocket ==
    IF polygonWS # 0 /\ isConnected
    THEN UNCHANGED << socks, polygonWS >>
    ELSE /\ \E s \in SockIds : ~Live(s)
         /\ LET s == Min({x \in SockIds : ~Live(x)})
            IN  /\ socks' = [socks EXCEPT ![s] = "connecting"]
                /\ polygonWS' = s

\* ws.on('open'): send the auth message.
WsOpen(s) ==
    /\ socks[s] = "connecting"
    /\ socks' = [socks EXCEPT ![s] = "authenticating"]
    /\ UNCHANGED << bcVars, enrichVars, storeVars, now, runVars, polygonWS, isConnected,
                    reconnectTimers >>

\* ws.on('message') with status auth_success: set isConnected, subscribe.
WsAuthSuccess(s) ==
    /\ socks[s] = "authenticating"
    /\ socks' = [socks EXCEPT ![s] = "streaming"]
    /\ isConnected' = TRUE
    /\ UNCHANGED << bcVars, enrichVars, storeVars, now, runVars, polygonWS, reconnectTimers >>

\* ws.on('error'): clear isConnected. The socket is then closing: the ws
\* library emits 'close' after every 'error'.
WsErrorReconnects(s) ==
    /\ socks[s] \in {"connecting", "authenticating", "streaming"}
    /\ socks' = [socks EXCEPT ![s] = "errored"]
    /\ isConnected' = FALSE
    /\ reconnectTimers' = reconnectTimers + 1
    /\ UNCHANGED << bcVars, enrichVars, storeVars, now, runVars, polygonWS >>

WsError(s) ==
    /\ socks[s] \in {"connecting", "authenticating", "streaming"}
    /\ socks' = [socks EXCEPT ![s] = "errored"]
    /\ isConnected' = FALSE
    /\ UNCHANGED << bcVars, enrichVars, storeVars, now, runVars, polygonWS, reconnectTimers >>

\* ws.on('close'): clear isConnected and arm the 5 s reconnect timer.
WsCloseNoReconnect(s) ==
    /\ Live(s)
    /\ socks' = [socks EXCEPT ![s] = "none"]
    /\ isConnected' = FALSE
    /\ UNCHANGED << bcVars, enrichVars, storeVars, now, runVars, polygonWS, reconnectTimers >>

WsClose(s) ==
    /\ Live(s)
    /\ socks' = [socks EXCEPT ![s] = "none"]
    /\ isConnected' = FALSE
    /\ reconnectTimers' = reconnectTimers + 1
    /\ UNCHANGED << bcVars, enrichVars, storeVars, now, runVars, polygonWS >>

\* The reconnect timer fires: initPolygonWebSocket().
ReconnectTimer ==
    /\ reconnectTimers > 0
    /\ reconnectTimers' = reconnectTimers - 1
    /\ initPolygonWebSocket
    /\ UNCHANGED << bcVars, enrichVars, storeVars, now, runVars, isConnected >>

\* ws.on('message') with ev 'O' while the market is open, then the part of
\* processOptionsTrade after its await: a tick that parses and carries at least
\* the minimum premium becomes a flow with the tick's time t; it is stored,
\* broadcast, and the oldest key is deleted over the cap.
WsTrade(s, t) ==
    /\ socks[s] = "streaming"
    /\ nextSeq <= MaxFlows
    /\ LET rec == [seq |-> nextSeq, timestamp |-> t]
       IN  /\ tradesStore' = wsInsert(tradesStore, rec)
           /\ lastFlow' = [seq |-> nextSeq, path |-> "ws",
                           atCap |-> Len(tradesStore) >= MAX_TRADES,
                           stored |-> nextSeq \in Keys(tradesStore')]
    /\ nextSeq' = nextSeq + 1
    /\ UNCHANGED << bcVars, enrichVars, clearedCount, now, runVars, wsVars >>

\* ---------------------------------------------------------------- REST backfill

InFlight == BagCardinality(runs)

\* Replace run by its next state in the bag.
Becomes(run, next) == (runs (-) SetToBag({run})) (+) SetToBag({next})

RECURSIVE SumGot(_, _)
SumGot(tk, S) ==
    IF S = {} THEN 0
    ELSE LET t == Min(S) IN tk[t].got + SumGot(tk, S \ {t})

\* processContracts from the head of its loop to its next await, with n
\* contracts left and a store of the given size: the contracts that are left
\* once the loop waits for a spot price (0: the loop has ended). The loop
\* breaks at the cap; a contract that lacks a field is skipped at once.
Advance(n, size) ==
    IF n <= 0 \/ size >= MAX_TRADES THEN {0} ELSE 0 .. n

\* The detached batches of fetchAllContracts, slices of BatchSize of the n
\* contracts after the first batch, each run to its first await: the bags of
\* what is left in those that wait.
RECURSIVE Launches(_, _)
Launches(n, size) ==
    IF n <= 0 THEN {EmptyBag}
    ELSE {IF l = 0 THEN B ELSE B (+) SetToBag({l}) :
             l \in Advance(MinOf(n, BatchSize), size),
             B \in Launches(n - BatchSize, size)}

\* fetchOptionsFromREST up to its first await, for the store st it finds: the
\* age sweep over half the cap, then fetchAllContracts' limits from the store
\* size and the first request of every ticker. g: the caller is the interval.
fetchOptionsFromREST(g, st) ==
    LET sweeps == 2 * Len(st) > MAX_TRADES
        swept == IF sweeps THEN ageSweep(st, now) ELSE st
        large == 10 * Len(swept) > MAX_TRADES
    IN  /\ InFlight < MaxRuns
        /\ tradesStore' = swept
        /\ clearedCount' = IF sweeps \/ Len(st) # Len(tradesStore)
                           THEN Len(tradesStore) - Len(swept) ELSE clearedCount
        /\ runs' = runs (+) SetToBag({
                      [pc |-> "fetch", guarded |-> g, large |-> large,
                       tk |-> [t \in Tickers |->
                                 [page |-> 0, got |-> 0, tries |-> 1, st |-> "req"]],
                       left |-> 0, rest |-> 0]})
        /\ UNCHANGED << nextSeq, lastFlow >>

\* setTimeout(..., 2000): the initial fetch, outside the interval's flag, and
\* the 10 s interval with its flag.
Warmup ==
    /\ ~intervalOn
    /\ intervalOn' = TRUE
    /\ isFetching' = FALSE
    /\ fetchOptionsFromREST(FALSE, tradesStore)
    /\ UNCHANGED << bcVars, enrichVars, now, background, wsVars >>

\* The interval callback: skip while isFetching; else sweep over 80% of the
\* cap, set the flag and start a run whose completion clears the flag.
IntervalTick ==
    /\ intervalOn
    /\ IF isFetching
       THEN UNCHANGED << bcVars, enrichVars, storeVars, now, runVars, wsVars >>
       ELSE /\ isFetching' = TRUE
            /\ fetchOptionsFromREST(TRUE,
                  IF 10 * Len(tradesStore) > 8 * MAX_TRADES
                  THEN ageSweep(tradesStore, now) ELSE tradesStore)
            /\ UNCHANGED << bcVars, enrichVars, now, intervalOn, background, wsVars >>

\* GET /api/options-flow without a ticker: a small store starts a run in the
\* background; the response is then built from the store.
GetOptionsFlow ==
    /\ Len(tradesStore) < SmallStoreFlow
    /\ fetchOptionsFromREST(FALSE, tradesStore)
    /\ UNCHANGED << bcVars, enrichVars, now, intervalOn, isFetching, background, wsVars >>

\* POST /api/options-flow/refresh: start a run in the background.
PostRefresh ==
    /\ fetchOptionsFromREST(FALSE, tradesStore)
    /\ UNCHANGED << bcVars, enrichVars, now, intervalOn, isFetching, background, wsVars >>

\* GET /api/options-flow/stats: a nearly empty store starts a run.
GetStats ==
    /\ Len(tradesStore) < SmallStoreStats
    /\ fetchOptionsFromREST(FALSE, tradesStore)
    /\ UNCHANGED << bcVars, enrichVars, now, intervalOn, isFetching, background, wsVars >>

contractsPerTicker(run) == IF run.large THEN ContractsLarge ELSE ContractsSmall

maxPagesPerTicker(run) == IF run.large THEN MaxPagesLarge ELSE MaxPagesSmall

\* One turn of fetchAllContracts' while loop for a ticker in state ts: the
\* answer to its request and what the loop does with it. A page with results
\* is added and the next page requested if there is one within the limits; a
\* 429 starts the 2 s sleep before `continue`; anything else ends the loop.
pageTurn(run, ts, resp, k, hasNext) ==
    IF resp = "ok"
    THEN IF hasNext /\ ts.page < maxPagesPerTicker(run) - 1
            /\ ts.got + k < contractsPerTicker(run)
         THEN [page |-> ts.page + 1, got |-> ts.got + k, tries |-> 1, st |-> "req"]
         ELSE [ts EXCEPT !.got = ts.got + k, !.st = "done"]
    ELSE IF resp = "429"
    THEN [ts EXCEPT !.st = "sleep"]
    ELSE [ts EXCEPT !.st = "done"]

\* The `continue` after the sleep: the loop condition still holds (neither the
\* page count nor the contracts changed), so the same page is requested again.
retryPage(ts) ==
    [ts EXCEPT !.st = "req", !.tries = MinOf(ts.tries + 1, MaxTries)]

Responses == {"ok", "noresults", "429", "401", "error"}

\* fetchOptionsFromREST returns: the run is over, and the interval's
\* then-callback clears its flag.
Complete(run) ==
    /\ runs' = runs (-) SetToBag({run})
    /\ isFetching' = IF run.guarded THEN FALSE ELSE isFetching

\* The first batch has ended: the remaining batches start detached and
\* fetchAllContracts returns.
FinishFirst(run, rest, size) ==
    \E B \in Launches(rest, size) :
        /\ BagCardinality(background (+) B) <= MaxBackground
        /\ background' = background (+) B
        /\ Complete(run)

\* Promise.all of the ticker loops has resolved with the ticker states tk:
\* nothing fetched ends the run; else the first batch is processed within it.
AfterFetch(run, tk) ==
    LET total == SumGot(tk, Tickers)
        first == MinOf(total, BatchSize)
    IN  IF total = 0
        THEN /\ Complete(run)
             /\ UNCHANGED background
        ELSE \E l \in Advance(first, Len(tradesStore)) :
                IF l = 0
                THEN FinishFirst(run, total - first, Len(tradesStore))
                ELSE /\ runs' = Becomes(run, [run EXCEPT !.pc = "first", !.tk = tk,
                                                 !.left = l, !.rest = total - first])
                     /\ UNCHANGED << isFetching, background >>

\* The vendor answers the request of ticker t in a run.
Respond(run, t, resp, k, hasNext) ==
    /\ run \in BagToSet(runs)
    /\ run.pc = "fetch"
    /\ run.tk[t].st = "req"
    /\ LET tk == [run.tk EXCEPT ![t] = pageTurn(run, run.tk[t], resp, k, hasNext)]
       IN  IF \A u \in Tickers : tk[u].st = "done"
           THEN AfterFetch(run, tk)
           ELSE /\ runs' = Becomes(run, [run EXCEPT !.tk = tk])
                /\ UNCHANGED << isFetching, background >>
    /\ UNCHANGED << bcVars, enrichVars, storeVars, now, intervalOn, wsVars >>

\* The 2 s sleep after a 429 of ticker t in a run is over.
RetryAfter429(run, t) ==
    /\ run \in BagToSet(runs)
    /\ run.pc = "fetch"
    /\ run.tk[t].st = "sleep"
    /\ runs' = Becomes(run, [run EXCEPT !.tk[t] = retryPage(run.tk[t])])
    /\ UNCHANGED << bcVars, enrichVars, storeVars, now, intervalOn, isFetching, background, wsVars >>

\* processContracts after the spot price of its current contract: the
\* contract is dropped (no activity, or an error caught), or it becomes a flow
\* that is stored under the cap and broadcast.
Contract(ok) ==
    IF ok
    THEN /\ nextSeq <= MaxFlows
         /\ tradesStore' = restInsert(tradesStore, [seq |-> nextSeq, timestamp |-> now])
         /\ lastFlow' = [seq |-> nextSeq, path |-> "rest",
                         atCap |-> Len(tradesStore) >= MAX_TRADES,
                         stored |-> nextSeq \in Keys(tradesStore')]
         /\ nextSeq' = nextSeq + 1
         /\ UNCHANGED clearedCount
    ELSE UNCHANGED storeVars

\* A step of the first batch of a run.
ProcessFirst(run, ok) ==
    /\ run \in BagToSet(runs)
    /\ run.pc = "first"
    /\ Contract(ok)
    /\ \E l \in Advance(run.left - 1, Len(tradesStore')) :
          IF l = 0
          THEN FinishFirst(run, run.rest, Len(tradesStore'))
          ELSE /\ runs' = Becomes(run, [run EXCEPT !.left = l])
               /\ UNCHANGED << isFetching, background >>
    /\ UNCHANGED << bcVars, enrichVars, now, intervalOn, wsVars >>

\* A step of a detached batch with n contracts left.
ProcessBackground(n, ok) ==
    /\ n \in BagToSet(background)
    /\ Contract(ok)
    /\ \E l \in Advance(n - 1, Len(tradesStore')) :
          background' = (background (-) SetToBag({n}))
                        (+) (IF l = 0 THEN EmptyBag ELSE SetToBag({l}))
    /\ UNCHANGED << bcVars, enrichVars, now, intervalOn, isFetching, runs, wsVars >>

\* ---------------------------------------------------------------- live broadcaster

\* Tickers of flows, and the ticker field of client frames ("": none given).
FlowTickers == {"AAPL", "SPY"}
FrameTickers == {"AAPL", "aapl", "SPY", "*", ""}

\* String.prototype.toUpperCase on the frame tickers.
toUpperCase(x) == IF x = "aapl" THEN "AAPL" ELSE x

NoBroadcast == [ticker |-> "", attempted |-> {}, failed |-> {}, delivered |-> {}]
NoAck == [to |-> 0, type |-> "", ticker |-> ""]

Registered == {clients[i] : i \in 1 .. Len(clients)}

\* clientSubscriptions.get(c) || new Set()
subscriptionsOf(c) ==
    IF c \in DOMAIN clientSubscriptions THEN clientSubscriptions[c] ELSE {}

\* clientSubscriptions.set(c, set) and clientSubscriptions.delete(c)
mapSet(c, set) ==
    [d \in (DOMAIN clientSubscriptions) \cup {c} |->
        IF d = c THEN set ELSE clientSubscriptions[d]]

mapDelete(c) ==
    [d \in (DOMAIN clientSubscriptions) \ {c} |-> clientSubscriptions[d]]

\* clients.delete(c), keeping the insertion order of the rest
setDelete(c) == SelectSeq(clients, LAMBDA d : d # c)

\* The publish rule of broadcastTradeUpdate for one subscriber.
shouldSendExactOnly(subscriptions, ticker) ==
    subscriptions = {} \/ ticker \in subscriptions

shouldSend(subscriptions, ticker) ==
    subscriptions = {} \/ ticker \in subscriptions \/ "*" \in subscriptions

\* The subscribers that got the message, for the subscribers the loop sends to
\* and those whose send throws: the throw is caught inside the loop body.
deliveredUntilThrow(order, attempted, failing) ==
    {order[i] : i \in {j \in 1 .. Len(order) :
                          /\ order[j] \in attempted
                          /\ \A h \in 1 .. j : order[h] \notin failing}}

deliveredTo(order, attempted, failing) ==
    {order[i] : i \in {j \in 1 .. Len(order) :
                          order[j] \in attempted /\ order[j] \notin failing}}

ingestVars == << storeVars, now, runVars, wsVars >>

\* wss.on('connection'): register the socket with an empty subscription set
\* and greet it.
ClientConnect(c) ==
    /\ readyState[c] = "NONE"
    /\ readyState' = [readyState EXCEPT ![c] = "OPEN"]
    /\ clients' = IF c \in Registered THEN clients ELSE Append(clients, c)
    /\ clientSubscriptions' = mapSet(c, {})
    /\ lastAck' = [to |-> c, type |-> "connected", ticker |-> ""]
    /\ lastBroadcast' = NoBroadcast
    /\ optedOut' = [optedOut EXCEPT ![c] = {}]
    /\ UNCHANGED << ingestVars, enrichVars >>

\* message {type: 'subscribe', channel: 'options-flow'}: acknowledge only.
Subscribe(c) ==
    /\ readyState[c] = "OPEN"
    /\ lastAck' = [to |-> c, type |-> "subscribed", ticker |-> ""]
    /\ lastBroadcast' = NoBroadcast
    /\ UNCHANGED << clients, clientSubscriptions, readyState, optedOut, ingestVars,
                    enrichVars >>

\* message {type: 'subscribe-ticker', ticker}: add the upper-cased ticker, or
\* `*` when none is given.
SubscribeTicker(c, raw) ==
    /\ readyState[c] = "OPEN"
    /\ LET ticker == toUpperCase(raw)
           added == IF ticker # "" THEN ticker ELSE "*"
       IN  /\ clientSubscriptions' = mapSet(c, subscriptionsOf(c) \cup {added})
           /\ lastAck' = [to |-> c, type |-> "subscribed-ticker", ticker |-> added]
    /\ lastBroadcast' = NoBroadcast
    /\ optedOut' = [optedOut EXCEPT ![c] = {}]
    /\ UNCHANGED << clients, readyState, ingestVars, enrichVars >>

\* message {type: 'unsubscribe-ticker', ticker}: with a ticker, delete it and
\* `*` and acknowledge; without one, nothing.
UnsubscribeTickerKeepsStar(c, raw) ==
    /\ readyState[c] = "OPEN"
    /\ LET ticker == toUpperCase(raw)
       IN  IF ticker # ""
           THEN /\ clientSubscriptions' = mapSet(c, subscriptionsOf(c) \ {ticker})
                /\ lastAck' = [to |-> c, type |-> "unsubscribed-ticker",
                               ticker |-> ticker]
           ELSE /\ lastAck' = NoAck
                /\ UNCHANGED clientSubscriptions
    /\ optedOut' = IF subscriptionsOf(c) = {toUpperCase(raw)}
                   THEN [optedOut EXCEPT ![c] = @ \cup {toUpperCase(raw)}]
                   ELSE optedOut
    /\ lastBroadcast' = NoBroadcast
    /\ UNCHANGED << clients, readyState, ingestVars, enrichVars >>

UnsubscribeTicker(c, raw) ==
    /\ readyState[c] = "OPEN"
    /\ LET ticker == toUpperCase(raw)
       IN  IF ticker # ""
           THEN /\ clientSubscriptions' = mapSet(c, subscriptionsOf(c) \ {ticker, "*"})
                /\ lastAck' = [to |-> c, type |-> "unsubscribed-ticker",
                               ticker |-> ticker]
           ELSE /\ lastAck' = NoAck
                /\ UNCHANGED clientSubscriptions
    /\ optedOut' = IF subscriptionsOf(c) = {toUpperCase(raw)}
                   THEN [optedOut EXCEPT ![c] = @ \cup {toUpperCase(raw)}]
                   ELSE optedOut
    /\ lastBroadcast' = NoBroadcast
    /\ UNCHANGED << clients, readyState, ingestVars, enrichVars >>

\* The socket starts closing (readyState leaves OPEN) before its 'close' event.
ClientClosing(c) ==
    /\ readyState[c] = "OPEN"
    /\ readyState' = [readyState EXCEPT ![c] = "CLOSING"]
    /\ lastAck' = NoAck
    /\ lastBroadcast' = NoBroadcast
    /\ UNCHANGED << clients, clientSubscriptions, optedOut, ingestVars, enrichVars >>

\* ws.on('error'): forget the socket; it is closing by then.
ClientError(c) ==
    /\ readyState[c] \in {"OPEN", "CLOSING"}
    /\ c \in Registered
    /\ readyState' = [readyState EXCEPT ![c] = "CLOSING"]
    /\ clients' = setDelete(c)
    /\ clientSubscriptions' = mapDelete(c)
    /\ lastAck' = NoAck
    /\ lastBroadcast' = NoBroadcast
    /\ optedOut' = [optedOut EXCEPT ![c] = {}]
    /\ UNCHANGED << ingestVars, enrichVars >>

\* ws.on('close'): forget the socket.
ClientClose(c) ==
    /\ readyState[c] \in {"OPEN", "CLOSING"}
    /\ readyState' = [readyState EXCEPT ![c] = "NONE"]
    /\ clients' = setDelete(c)
    /\ clientSubscriptions' = mapDelete(c)
    /\ lastAck' = NoAck
    /\ lastBroadcast' = NoBroadcast
    /\ optedOut' = [optedOut EXCEPT ![c] = {}]
    /\ UNCHANGED << ingestVars, enrichVars >>

\* broadcastTradeUpdate(trade) for a flow of the given ticker: every registered
\* socket that is OPEN and passes the publish rule is sent the message; the
\* sends to the sockets in failing throw.
broadcastTradeUpdate(ticker, failing) ==
    LET attempted == {c \in Registered :
                         /\ readyState[c] = "OPEN"
                         /\ shouldSend(subscriptionsOf(c), ticker)}
    IN  /\ failing \subseteq attempted
        /\ lastBroadcast' = [ticker |-> ticker, attempted |-> attempted,
                             failed |-> failing,
                             delivered |-> deliveredTo(clients, attempted, failing)]
        /\ lastAck' = NoAck
        /\ UNCHANGED << clients, clientSubscriptions, readyState, optedOut, ingestVars,
                        enrichVars >>

\* ---------------------------------------------------------------- trade type

SWEEP_WINDOW_MS == 500

\* Sizes, premiums, exchanges and event times (ms) of the ticks; 0 stands for
\* a missing exchange or timestamp (both are falsy in the classifier's test).
TickSizes == {10, 30, 100}
TickPremiums == {12000, 50000}
TickExchanges == {0, 1, 2}
TickTimes == {0, 1000, 1300, 1501}

Abs(x) == IF x < 0 THEN -x ELSE x

\* recent.slice(-n)
LastN(seq, n) ==
    IF Len(seq) <= n THEN seq ELSE SubSeq(seq, Len(seq) - n + 1, Len(seq))

\* The Block test that classifyTradeType makes first.
isBlock(trade) == trade.size >= 100 /\ trade.premium >= 50000

\* `exchange && timestamp && recentTrades`
usesRing(trade) == trade.exchange # 0 /\ trade.timestamp # 0

\* The ring's entries within the window on a different exchange.
sweepWindow(trade, recent) ==
    SelectSeq(recent, LAMBDA t :
        /\ Abs(t.timestamp - trade.timestamp) <= SWEEP_WINDOW_MS
        /\ t.exchange # trade.exchange)

\* The size/premium heuristics at the end of classifyTradeType.
heuristicType(trade) ==
    IF trade.size >= 50 /\ trade.premium >= 25000
       /\ (trade.size >= 100 \/ trade.premium >= 50000)
    THEN "Sweep"
    ELSE IF trade.size >= 200 \/ trade.premium >= 100000 THEN "Block"
    ELSE IF trade.size >= 25 /\ trade.premium >= 10000 THEN "Sweep"
    ELSE "Split"

\* classifyTradeType's result: Block first; Sweep on a ring hit; otherwise the
\* code falls through to the heuristics, whether or not the ring was used.
classifyTradeType(trade, recent) ==
    IF isBlock(trade) THEN "Block"
    ELSE IF usesRing(trade) /\ Len(sweepWindow(trade, recent)) >= 1 THEN "Sweep"
    ELSE heuristicType(trade)

\* classifyTradeType's effect on the ring: the tick is pushed and the ring
\* trimmed only on the path that used the ring and found no hit.
ringAfter(trade, recent) ==
    IF ~isBlock(trade) /\ usesRing(trade) /\ Len(sweepWindow(trade, recent)) = 0
    THEN LastN(Append(recent, trade), RingKeep)
    ELSE recent

\* A tick of the contract reaches classifyTradeType.
ClassifyTick(trade) ==
    /\ Len(ticks) < MaxTicks
    /\ ticks' = Append(ticks,
                  [trade |-> trade,
                   tradeType |-> classifyTradeType(trade, recentTradesMap),
                   ringHit |-> /\ ~isBlock(trade)
                               /\ usesRing(trade)
                               /\ Len(sweepWindow(trade, recentTradesMap)) >= 1])
    /\ recentTradesMap' = ringAfter(trade, recentTradesMap)
    /\ UNCHANGED << ingestVars, bcVars, queryVars, spotVars, sideFlow, gexVars,
                    routeVars >>

\* ---------------------------------------------------------------- query engine

\* Attributes of a stored flow that the modelled part of the query reads:
\* the event time, premiumRaw, the option type and the stored spot (0: spot
\* missing or equal to the strike, which makes the handler fetch a fresh one).
FlowValues ==
    [timestamp : {1, 2}, premiumRaw : {1, 2}, type : {"CALL", "PUT"}, spot : {0, 1}]

\* Outcomes of getSpotPrice during enrichment (0: not available, the handler
\* falls back to the strike).
SpotAnswers == {0, 2}

\* What buildTradesForTickerSearch can return for a ticker.
SearchResults ==
    {<< >>,
     << [timestamp |-> 2, premiumRaw |-> 1, type |-> "CALL", spot |-> 1],
        [timestamp |-> 2, premiumRaw |-> 2, type |-> "PUT", spot |-> 1] >>}

\* Requests: page and limit as sent, sort key, the calls and puts flags, and
\* whether a ticker is given.
Requests ==
    [page : 1 .. MaxPage, limit : 1 .. MaxLimit, sortBy : {"time", "premium"},
     calls : BOOLEAN, puts : BOOLEAN, ticker : BOOLEAN]

NoReq == [page |-> 0, limit |-> 0, sortBy |-> "", calls |-> FALSE,
          puts |-> FALSE, ticker |-> FALSE]
NoResp == [flows |-> << >>, count |-> -1, totalCount |-> -1, page |-> 0,
           totalPages |-> -1]

\* parseInt(page) || 1
pageNum(req) == IF req.page = 0 THEN 1 ELSE req.page

\* Math.ceil(a / b)
Ceil(a, b) == (a + b - 1) \div b

\* The filter callback, for the type flags: one flag alone is enforced, both
\* or none filter nothing.
passesFilter(trade, req) ==
    /\ ~(req.calls /\ ~req.puts /\ trade.type # "CALL")
    /\ ~(req.puts /\ ~req.calls /\ trade.type # "PUT")

\* The comparator's key, descending.
sortKey(trade, sortBy) ==
    IF sortBy = "premium" THEN trade.premiumRaw ELSE trade.timestamp

\* Array.prototype.sort with the comparator: stable, descending by key.
RECURSIVE insertSorted(_, _, _)
insertSorted(sorted, trade, sortBy) ==
    IF sorted = << >> THEN << trade >>
    ELSE IF sortKey(trade, sortBy) > sortKey(sorted[Len(sorted)], sortBy)
    THEN Append(insertSorted(SubSeq(sorted, 1, Len(sorted) - 1), trade, sortBy),
                sorted[Len(sorted)])
    ELSE Append(sorted, trade)

sortTradesKeepsStoreOrder(trades, sortBy) == trades

RECURSIVE sortTrades(_, _)
sortTrades(trades, sortBy) ==
    IF trades = << >> THEN << >>
    ELSE insertSorted(sortTrades(SubSeq(trades, 1, Len(trades) - 1), sortBy),
                      trades[Len(trades)], sortBy)

\* Array.prototype.slice(from, to) with 0-based, non-negative bounds.
slice(seq, from, to) ==
    SubSeq(seq, from + 1, MinOf(to, Len(seq)))

\* The enrichment of a returned flow: a stored spot that is usable is kept,
\* else the fetched one (or the strike, 0) is reported.
enrichAlwaysFetched(trade, fetched) ==
    [trade EXCEPT !.spot = fetched]

enrich(trade, fetched) ==
    [trade EXCEPT !.spot = IF trade.spot # 0 THEN trade.spot ELSE fetched]

enrichAll(trades, fetched) ==
    [i \in 1 .. Len(trades) |-> enrich(trades[i], fetched)]

\* The response of the store-backed path.
storeResponse(store, req, fetched) ==
    LET limitNum == req.limit
        offset == (pageNum(req) - 1) * limitNum
        filteredTrades == SelectSeq(store, LAMBDA t : passesFilter(t, req))
        sortedTrades == sortTrades(filteredTrades, req.sortBy)
        paginatedTrades == slice(sortedTrades, offset, offset + limitNum)
    IN  [flows |-> enrichAll(paginatedTrades, fetched),
         count |-> Len(paginatedTrades),
         totalCount |-> Len(sortedTrades),
         page |-> pageNum(req),
         totalPages |-> Ceil(Len(sortedTrades), limitNum)]

\* The response of the ticker-search path: the search result, paged.
searchResponse(searchTrades, req) ==
    LET limitNum == req.limit
        offset == (pageNum(req) - 1) * limitNum
        pagedTrades == slice(searchTrades, offset, offset + limitNum)
        pages == Ceil(Len(searchTrades), limitNum)
    IN  [flows |-> pagedTrades,
         count |-> Len(pagedTrades),
         totalCount |-> Len(searchTrades),
         page |-> pageNum(req),
         totalPages |-> IF pages < 1 THEN 1 ELSE pages]

\* A write to the store by the ingestion paths: an insert (evicting the
\* oldest at the cap) or the deletion of a record by a sweep.
StoreInsert(rec) ==
    /\ flowRecords' = LastN(Append(flowRecords, rec), MaxStored)
    /\ lastReq' = NoReq
    /\ lastResp' = NoResp
    /\ prevResp' = NoResp
    /\ UNCHANGED << ingestVars, bcVars, classifierVars, spotVars, sideFlow, gexVars,
                    routeVars >>

StoreDelete(i) ==
    /\ i \in 1 .. Len(flowRecords)
    /\ flowRecords' = SubSeq(flowRecords, 1, i - 1)
                      \o SubSeq(flowRecords, i + 1, Len(flowRecords))
    /\ lastReq' = NoReq
    /\ lastResp' = NoResp
    /\ prevResp' = NoResp
    /\ UNCHANGED << ingestVars, bcVars, classifierVars, spotVars, sideFlow, gexVars,
                    routeVars >>

\* contract.primary_exchange || 'N/A': the exchange of a tick built from a
\* snapshot contract, a value that no exchange id of a WebSocket tick equals.
SnapshotExchange == 3

\* The tradeTypeObj buildTradesForTickerSearch builds for the snapshot contract
\* of the modelled symbol. Its timestamp is Date.now(); snapshot ticks share
\* one exchange, so the ring test never compares their times and one value
\* stands for all.
searchTradeTypeObj ==
    [size |-> 10, premium |-> 12000, exchange |-> SnapshotExchange,
     timestamp |-> 1000]

\* GET /api/options-flow: with a ticker the search path answers, classifying
\* every contract it builds against the shared ring; else the store path
\* answers over a snapshot of the store's values.
GetFlows(req, fetched, searchTrades) ==
    /\ lastResp' = IF req.ticker
                   THEN searchResponse(searchTrades, req)
                   ELSE storeResponse(flowRecords, req, fetched)
    /\ lastReq' = req
    /\ prevResp' = IF lastReq = req THEN lastResp ELSE NoResp
    /\ recentTradesMap' = IF req.ticker /\ searchTrades # << >>
                          THEN ringAfter(searchTradeTypeObj, recentTradesMap)
                          ELSE recentTradesMap
    /\ UNCHANGED << flowRecords, ticks, ingestVars, bcVars, spotVars, sideFlow,
                    gexVars,
                    routeVars >>

\* ---------------------------------------------------------------- spot price

\* Time passes; a timer that is due fires before the clock moves on.
SpotTick ==
    /\ spotNow < MaxSpotTime
    /\ \A w \in BagToSet(spotSleepers) : w > spotNow
    /\ spotNow' = spotNow + 1
    /\ UNCHANGED << lastSpotPriceRequest, spotSleepers, spotRequests,
                    ingestVars, bcVars, classifierVars, queryVars, sideFlow, gexVars,
                    routeVars >>

\* The vendor request that follows `lastSpotPriceRequest = Date.now()`.
startSpotRequest ==
    /\ lastSpotPriceRequest' = spotNow
    /\ spotRequests' = Append(spotRequests, spotNow)

\* getSpotPrice on a cache miss, up to its first await: a caller that comes
\* less than MinInterval after the last request sleeps for the rest of the
\* interval; any other caller stamps the time and sends its request.
GetSpotPriceMiss ==
    /\ Len(spotRequests) + BagCardinality(spotSleepers) < MaxSpotCalls
    /\ LET timeSinceLastRequest == spotNow - lastSpotPriceRequest
       IN  IF timeSinceLastRequest < MinInterval
           THEN /\ spotSleepers' = spotSleepers (+)
                      SetToBag({spotNow + (MinInterval - timeSinceLastRequest)})
                /\ UNCHANGED << lastSpotPriceRequest, spotRequests >>
           ELSE /\ startSpotRequest
                /\ UNCHANGED spotSleepers
    /\ UNCHANGED << spotNow, ingestVars, bcVars, classifierVars, queryVars, sideFlow, gexVars,
                    routeVars >>

\* The sleep of a waiting caller ends: it stamps the time and sends its
\* request, without looking at lastSpotPriceRequest again.
SpotWake(w) ==
    /\ w \in BagToSet(spotSleepers)
    /\ w <= spotNow
    /\ spotSleepers' = spotSleepers (-) SetToBag({w})
    /\ startSpotRequest
    /\ UNCHANGED << spotNow, ingestVars, bcVars, classifierVars, queryVars, sideFlow, gexVars,
                    routeVars >>

\* ---------------------------------------------------------------- side label

NoSide == [path |-> "none", price |-> 0, bid |-> 0, ask |-> 0, side |-> "Mid"]

\* detectSide(price, bid, ask, type).side, the label of a flow built from a
\* WebSocket tick; threshold = 0.1 * (ask - bid), compared in tenths.
detectSide(price, bid, ask) ==
    IF bid = 0 \/ ask = 0 THEN "Mid"
    ELSE IF 10 * price >= 10 * ask - (ask - bid)
    THEN (IF price > ask THEN "Above Ask" ELSE "At Ask")
    ELSE IF 10 * price <= 10 * bid + (ask - bid)
    THEN (IF price < bid THEN "Below Bid" ELSE "At Bid")
    ELSE IF 2 * price > bid + ask THEN "To Ask"
    ELSE IF 2 * price < bid + ask THEN "To Bid"
    ELSE "Mid"

\* detectSideWithColor(tradePrice, bid, ask).label, the label of a flow built
\* from a REST snapshot.
detectSideWithColor(tradePrice, bid, ask) ==
    IF bid = 0 \/ ask = 0 THEN "Mid"
    ELSE IF tradePrice > ask THEN "Abv Ask"
    ELSE IF 10 * tradePrice >= 10 * ask - (ask - bid) THEN "At Ask"
    ELSE IF 2 * tradePrice > bid + ask THEN "To Ask"
    ELSE IF tradePrice < bid THEN "Blw Bid"
    ELSE IF 10 * tradePrice <= 10 * bid + (ask - bid) THEN "At Bid"
    ELSE IF 2 * tradePrice < bid + ask THEN "To Bid"
    ELSE "Mid"

\* processOptionsTrade builds the flow of a tick (bid and ask default to 0).
BuildTickFlow(price, bid, ask) ==
    /\ sideFlow' = [path |-> "ws", price |-> price, bid |-> bid, ask |-> ask,
                    side |-> detectSide(price, bid, ask)]
    /\ UNCHANGED << ingestVars, bcVars, classifierVars, queryVars, spotVars, gexVars,
                    routeVars >>

\* processContracts builds the flow of a snapshot contract.
BuildContractFlow(price, bid, ask) ==
    /\ sideFlow' = [path |-> "rest", price |-> price, bid |-> bid, ask |-> ask,
                    side |-> detectSideWithColor(price, bid, ask)]
    /\ UNCHANGED << ingestVars, bcVars, classifierVars, queryVars, spotVars, gexVars,
                    routeVars >>

\* ---------------------------------------------------------------- gamma exposure

MaxContracts == 3

GexStrikes == {90, 100, 110}
GexExpirations == {1, 2}
OpenInterests == {0, 10}
SpotPrices == {100, 200}

\* greeks of a vendor contract: gamma is << >> when the vendor sends none (or
\* NaN), mid_iv is 0 when the vendor sends none; volatilities are in tenths.
GreeksValues ==
    { [gamma |-> << >>, mid_iv |-> 6], [gamma |-> << 5 >>, mid_iv |-> 0] }

ChainContracts ==
    [strike : GexStrikes, contract_type : {"call", "put"},
     expiration_date : GexExpirations, greeks : GreeksValues,
     open_interest : OpenInterests]

NoGex == [success |-> FALSE, chain |-> << >>, spotPrice |-> 0]

Range(s) == {s[i] : i \in DOMAIN s}

RECURSIVE Sum(_)
Sum(s) == IF s = << >> THEN 0 ELSE Head(s) + Sum(Tail(s))

RECURSIVE Flat(_)
Flat(ss) == IF ss = << >> THEN << >> ELSE Head(ss) \o Flat(Tail(ss))

\* iv = greeks.mid_iv || ... || 0.3
IvDefault == 3

impliedVolatility(c) ==
    IF c.greeks.mid_iv # 0 THEN c.greeks.mid_iv ELSE IvDefault

\* calculateGamma = normPDF(d1) / (S * sigma * sqrt(T)).  The density and
\* 1 / sqrt(T) are positive whatever K, T and r are; the model holds their
\* product at GammaUnits and keeps the division by S * sigma.
GammaUnits == 1200

calculateGamma(S, K, sigma) == GammaUnits \div (S * sigma)

calculateAllGreeks(S, K, sigma) == [gamma |-> calculateGamma(S, K, sigma)]

\* calculateSingleGEX: gamma * OI * 100 * spot^2, positive for calls and
\* negative for anything else.  gamma is a fraction << numerator, denominator >>
\* because the route passes an OI-weighted average.
calculateSingleGEXPutsPositive(gamma, openInterest, spotPrice, optionType) ==
    ((gamma[1] * openInterest) \div gamma[2]) * 100 * spotPrice * spotPrice

calculateSingleGEX(gamma, openInterest, spotPrice, optionType) ==
    LET multiplier == IF optionType = "call" THEN 1 ELSE -1
    IN  ((gamma[1] * openInterest) \div gamma[2]) * 100 * spotPrice * spotPrice
            * multiplier

calculateStrikeGEX(strike, callGamma, putGamma, callOI, putOI, spotPrice) ==
    LET callGEX == calculateSingleGEX(callGamma, callOI, spotPrice, "call")
        putGEX == calculateSingleGEX(putGamma, putOI, spotPrice, "put")
    IN  [callGEX |-> callGEX, putGEX |-> putGEX, netGEX |-> callGEX + putGEX]

\* The keys of an object in insertion order: the distinct values of f over the
\* contracts, by first appearance.
RECURSIVE firstSeen(_, _)
firstSeen(values, seen) ==
    IF values = << >> THEN << >>
    ELSE IF Head(values) \in seen THEN firstSeen(Tail(values), seen)
    ELSE << Head(values) >> \o firstSeen(Tail(values), seen \cup {Head(values)})

expirationKeys(contracts) ==
    firstSeen([i \in 1 .. Len(contracts) |-> contracts[i].expiration_date], {})

groupByExpiration(contracts, expDate) ==
    SelectSeq(contracts, LAMBDA c : c.expiration_date = expDate)

groupByStrike(contracts, strike) ==
    SelectSeq(contracts, LAMBDA c : c.strike = strike)

strikeKeys(contracts) ==
    firstSeen([i \in 1 .. Len(contracts) |-> contracts[i].strike], {})

\* strikeGEX.sort((a, b) => b.strike - a.strike)
RECURSIVE sortDescending(_)
sortDescending(rows) ==
    IF rows = << >> THEN << >>
    ELSE LET top == CHOOSE i \in 1 .. Len(rows) :
                        \A j \in 1 .. Len(rows) : rows[j].strike <= rows[i].strike
         IN  << rows[top] >>
                 \o sortDescending([i \in 1 .. Len(rows) - 1 |->
                                        IF i < top THEN rows[i] ELSE rows[i + 1]])

\* The body of the loop over the strikes of one expiration: the row of one
\* strike, gamma being computed from the implied volatility of each contract.
strikeRow(strikeContracts, strikeNum, spotPrice) ==
    LET calls == SelectSeq(strikeContracts, LAMBDA c : c.contract_type = "call")
        puts == SelectSeq(strikeContracts, LAMBDA c : c.contract_type = "put")
        gammaOf(c) ==
            calculateAllGreeks(spotPrice, strikeNum, impliedVolatility(c)).gamma
        callGamma == Sum([i \in 1 .. Len(calls) |->
                             gammaOf(calls[i]) * calls[i].open_interest])
        callOI == Sum([i \in 1 .. Len(calls) |-> calls[i].open_interest])
        callGEX == Sum([i \in 1 .. Len(calls) |->
                           calculateSingleGEX(<< gammaOf(calls[i]), 1 >>,
                                              calls[i].open_interest, spotPrice,
                                              "call")])
        putGamma == Sum([i \in 1 .. Len(puts) |->
                            gammaOf(puts[i]) * puts[i].open_interest])
        putOI == Sum([i \in 1 .. Len(puts) |-> puts[i].open_interest])
        putGEX == Sum([i \in 1 .. Len(puts) |->
                          calculateSingleGEX(<< gammaOf(puts[i]), 1 >>,
                                             puts[i].open_interest, spotPrice,
                                             "put")])
        avgCallGamma == IF callOI > 0 THEN << callGamma, callOI >> ELSE << 0, 1 >>
        avgPutGamma == IF putOI > 0 THEN << putGamma, putOI >> ELSE << 0, 1 >>
        strikeGEXData == calculateStrikeGEX(strikeNum, avgCallGamma, avgPutGamma,
                                            callOI, putOI, spotPrice)
    IN  [strike |-> strikeNum, callGEX |-> callGEX, putGEX |-> putGEX,
         netGEX |-> strikeGEXData.netGEX, callOI |-> callOI, putOI |-> putOI,
         totalOI |-> callOI + putOI]

\* gexByExpiration[expDate].strikes
strikeGEX(contracts, spotPrice) ==
    LET keys == strikeKeys(contracts)
    IN  sortDescending([i \in 1 .. Len(keys) |->
                           strikeRow(groupByStrike(contracts, keys[i]), keys[i],
                                     spotPrice)])

\* The total pain of the option holders if the underlying expires at a strike.
totalPain(chain, testStrike) ==
    Sum([i \in 1 .. Len(chain) |->
            (IF testStrike > chain[i].strike
             THEN (testStrike - chain[i].strike) * chain[i].callOI ELSE 0)
            + (IF testStrike < chain[i].strike
               THEN (chain[i].strike - testStrike) * chain[i].putOI ELSE 0)])

\* calculateMaxPain's loop from entry i on, minPain and maxPainStrike being the
\* best so far.  The first pass always replaces Infinity, so the scan starts
\* from the pain of the first entry.
RECURSIVE maxPainScan(_, _, _, _)
RECURSIVE maxPainScanLastWins(_, _, _, _)
maxPainScanLastWins(chain, i, minPain, maxPainStrike) ==
    IF i > Len(chain) THEN maxPainStrike
    ELSE IF totalPain(chain, chain[i].strike) <= minPain
    THEN maxPainScanLastWins(chain, i + 1, totalPain(chain, chain[i].strike),
                             chain[i].strike)
    ELSE maxPainScanLastWins(chain, i + 1, minPain, maxPainStrike)

maxPainScan(chain, i, minPain, maxPainStrike) ==
    IF i > Len(chain) THEN maxPainStrike
    ELSE IF totalPain(chain, chain[i].strike) < minPain
    THEN maxPainScan(chain, i + 1, totalPain(chain, chain[i].strike),
                     chain[i].strike)
    ELSE maxPainScan(chain, i + 1, minPain, maxPainStrike)

calculateMaxPain(chain) ==
    maxPainScan(chain, 2, totalPain(chain, chain[1].strike), chain[1].strike)

\* The entries findKeyGEXLevels receives: one per contract, every contract that
\* is not a call counting as a put.
keyLevelChain(allContracts, spotPrice) ==
    [i \in 1 .. Len(allContracts) |->
        LET c == allContracts[i]
            isCall == c.contract_type = "call"
            greeks == calculateAllGreeks(spotPrice, c.strike, impliedVolatility(c))
        IN  [strike |-> c.strike,
             callGamma |-> IF isCall THEN greeks.gamma ELSE 0,
             putGamma |-> IF isCall THEN 0 ELSE greeks.gamma,
             callOI |-> IF isCall THEN c.open_interest ELSE 0,
             putOI |-> IF isCall THEN 0 ELSE c.open_interest]]

\* findKeyGEXLevels' gexByStrike: one item per entry of the chain it is given,
\* with the absolute netGEX of that entry.
gexByStrike(chain, spotPrice) ==
    [i \in 1 .. Len(chain) |->
        [strike |-> chain[i].strike,
         gex |-> Abs(calculateStrikeGEX(chain[i].strike,
                                        << chain[i].callGamma, 1 >>,
                                        << chain[i].putGamma, 1 >>,
                                        chain[i].callOI, chain[i].putOI,
                                        spotPrice).netGEX)]]

\* items.reduce((max, current) => current.gex > max.gex ? current : max) from
\* item i on.
RECURSIVE reduceMaxGex(_, _, _)
reduceMaxGex(items, i, max) ==
    IF i > Len(items) THEN max
    ELSE reduceMaxGex(items, i + 1, IF items[i].gex > max.gex THEN items[i] ELSE max)

\* findKeyGEXLevels(...).gammaWall: the first item of the largest gex, or
\* null (<< >>) when that gex is 0.
gammaWall(chain, spotPrice) ==
    LET items == gexByStrike(chain, spotPrice)
        wall == reduceMaxGex(items, 2, items[1])
    IN  IF wall.gex > 0 THEN << wall >> ELSE << >>

\* The response of GET /api/gex/:ticker for a chain and the spot price read
\* from it.  A heatmap cell is << >> where the expiration has no row for the
\* strike; the rows the route adds between the chain's strikes hold only such
\* cells and are left out.
gexResponseOf(chain, spotPrice) ==
    LET expirations == expirationKeys(chain)
        byExpiration ==
            [i \in 1 .. Len(expirations) |->
                [expiration |-> expirations[i],
                 strikes |-> strikeGEX(groupByExpiration(chain, expirations[i]),
                                       spotPrice)]]
        allContracts ==
            Flat([i \in 1 .. Len(expirations) |->
                     groupByExpiration(chain, expirations[i])])
        allRows == Flat([i \in 1 .. Len(byExpiration) |-> byExpiration[i].strikes])
        cell(strike, i) ==
            LET rows == SelectSeq(byExpiration[i].strikes,
                                  LAMBDA r : r.strike = strike)
            IN  IF rows = << >> THEN << >> ELSE << rows[1].netGEX >>
    IN  [success |-> TRUE, chain |-> chain, spotPrice |-> spotPrice,
         allContracts |-> allContracts,
         summary |->
            [netGEX |-> Sum([i \in 1 .. Len(allRows) |-> allRows[i].netGEX]),
             callGEX |-> Sum([i \in 1 .. Len(allRows) |-> allRows[i].callGEX]),
             putGEX |-> Sum([i \in 1 .. Len(allRows) |-> allRows[i].putGEX]),
             gammaWall |-> gammaWall(keyLevelChain(allContracts, spotPrice),
                                     spotPrice),
             maxPain |-> calculateMaxPain(keyLevelChain(allContracts, spotPrice))],
         heatmap |->
            [k \in {c.strike : c \in Range(chain)} |->
                [i \in 1 .. Len(expirations) |-> cell(k, i)]],
         byExpiration |-> byExpiration]

\* The vendor lists one more contract of the ticker.
ChainListing(c) ==
    /\ Len(optionsChain) < MaxContracts
    /\ optionsChain' = Append(optionsChain, c)
    /\ gexResponse' = NoGex
    /\ UNCHANGED << ingestVars, bcVars, classifierVars, queryVars, spotVars,
                    sideFlow,
                    routeVars >>

\* GET /api/gex/:ticker; an empty chain is answered 404.
GetGex(spotPrice) ==
    /\ gexResponse = NoGex
    /\ optionsChain # << >>
    /\ gexResponse' = gexResponseOf(optionsChain, spotPrice)
    /\ UNCHANGED << optionsChain, ingestVars, bcVars, classifierVars, queryVars,
                    spotVars, sideFlow,
                    routeVars >>

\* ---------------------------------------------------------------- option symbols

\* A symbol is a sequence of one-character strings.
DigitChars == << "0", "1", "2", "3", "4", "5", "6", "7", "8", "9" >>

isDigit(ch) == \E d \in 1 .. 10 : DigitChars[d] = ch

digitValue(ch) == (CHOOSE d \in 1 .. 10 : DigitChars[d] = ch) - 1

\* Number.prototype.toString of a non-negative integer.
RECURSIVE toString(_)
toString(n) ==
    IF n < 10 THEN << DigitChars[n + 1] >>
    ELSE toString(n \div 10) \o << DigitChars[(n % 10) + 1] >>

RECURSIVE padStart(_, _, _)
padStart(s, targetLength, ch) ==
    IF Len(s) >= targetLength THEN s ELSE padStart(<< ch >> \o s, targetLength, ch)

\* String.prototype.substring: indexes from 0, clamped to the string, swapped
\* when the first is the larger.
clampIndex(s, i) == IF i < 0 THEN 0 ELSE IF i > Len(s) THEN Len(s) ELSE i

substring(s, start, end) ==
    LET a == clampIndex(s, start)
        b == clampIndex(s, end)
    IN IF a <= b THEN SubSeq(s, a + 1, b) ELSE SubSeq(s, b + 1, a)

\* parseInt of a string: the value of its leading digits, << >> (NaN) when
\* it has none.
RECURSIVE digitsValue(_, _)
digitsValue(s, acc) ==
    IF s = << >> \/ ~isDigit(Head(s)) THEN acc
    ELSE digitsValue(Tail(s), acc * 10 + digitValue(Head(s)))

parseInt(s) ==
    IF s = << >> \/ ~isDigit(Head(s)) THEN << >> ELSE << digitsValue(s, 0) >>

\* String.prototype.indexOf and lastIndexOf: the index from 0 of the first and
\* of the last ch of s, -1 when s has none.
indexOf(s, ch) ==
    IF \E i \in DOMAIN s : s[i] = ch
    THEN (CHOOSE i \in DOMAIN s : s[i] = ch /\ \A j \in 1 .. i - 1 : s[j] # ch) - 1
    ELSE 0 - 1
lastIndexOf(s, ch) ==
    IF \E i \in DOMAIN s : s[i] = ch
    THEN (CHOOSE i \in DOMAIN s :
              s[i] = ch /\ \A j \in i + 1 .. Len(s) : s[j] # ch) - 1
    ELSE 0 - 1

\* symbol.replace(/^O[:.]/, '')
stripPrefix(symbol) ==
    IF Len(symbol) >= 2 /\ symbol[1] = "O" /\ symbol[2] \in {":", "."}
    THEN SubSeq(symbol, 3, Len(symbol))
    ELSE symbol

\* cleanSymbol.match(/[CP](?=\d{8}$)/): the matched letter, << >> for no match.
matchTypeLetter(cleanSymbol) ==
    LET n == Len(cleanSymbol)
    IN IF /\ n >= 9
          /\ cleanSymbol[n - 8] \in {"C", "P"}
          /\ \A i \in n - 7 .. n : isDigit(cleanSymbol[i])
       THEN << cleanSymbol[n - 8] >>
       ELSE << >>

isLeapYear(year) == (year % 4 = 0 /\ year % 100 # 0) \/ year % 400 = 0

daysInMonth(year, month) ==
    IF month = 1 THEN (IF isLeapYear(year) THEN 29 ELSE 28)
    ELSE IF month \in {3, 5, 8, 10} THEN 30 ELSE 31

\* new Date(year, month, day): month counts from 0; a month or a day out of
\* range carries into the next or the previous unit.
RECURSIVE newDate(_, _, _)
newDate(year, month, day) ==
    IF month > 11 THEN newDate(year + 1, month - 12, day)
    ELSE IF month < 0 THEN newDate(year - 1, month + 12, day)
    ELSE IF day > daysInMonth(year, month)
         THEN newDate(year, month + 1, day - daysInMonth(year, month))
    ELSE IF day < 1
         THEN IF month = 0
              THEN newDate(year - 1, 11, day + 31)
              ELSE newDate(year, month - 1, day + daysInMonth(year, month - 1))
    ELSE [year |-> year, month |-> month, date |-> day]

\* The fields both methods of the parser read off the position of the type
\* letter; a number is << n >>, NaN is << >>, the strike is in thousandths.
fieldsAt(cleanSymbol, cpIndex, letter) ==
    LET dateStr == substring(cleanSymbol, cpIndex - 6, cpIndex)
        yy == parseInt(substring(dateStr, 0, 2))
        mm == parseInt(substring(dateStr, 2, 4))
        dd == parseInt(substring(dateStr, 4, 6))
        strikeStr == substring(cleanSymbol, cpIndex + 1, Len(cleanSymbol))
    IN [ticker |-> substring(cleanSymbol, 0, cpIndex - 6),
        strike |-> parseInt(strikeStr),
        expiration |->
            IF mm = << >> \/ dd = << >> THEN << >>
            ELSE padStart(toString(mm[1]), 2, "0") \o << "/" >>
                     \o padStart(toString(dd[1]), 2, "0"),
        expirationDate |->
            IF yy = << >> \/ mm = << >> \/ dd = << >> THEN << >>
            ELSE << newDate(2000 + yy[1], mm[1] - 1, dd[1]) >>,
        type |-> IF letter = "P" THEN "PUT" ELSE "CALL"]

\* << the parsed record >>, or << >> where the code returns null.
parseOptionSymbol(symbol) ==
    LET cleanSymbol == stripPrefix(symbol)
        match == matchTypeLetter(cleanSymbol)
        cpIndex == Len(cleanSymbol) - 9
    IN IF match # << >>
       THEN << fieldsAt(cleanSymbol, lastIndexOf(cleanSymbol, match[1]), match[1]) >>
       ELSE IF cpIndex < 0 THEN << >>
       ELSE IF cleanSymbol[cpIndex + 1] \notin {"C", "P"} THEN << >>
       ELSE << fieldsAt(cleanSymbol, cpIndex, cleanSymbol[cpIndex + 1]) >>

\* "O:" or "O." + ticker + YYMMDD + C/P + the strike's thousandths on 8 digits.
occSymbol(prefix, c) ==
    << "O", prefix >> \o c.underlying
        \o padStart(toString(c.yy), 2, "0") \o padStart(toString(c.mm), 2, "0")
        \o padStart(toString(c.dd), 2, "0")
        \o << c.kind >> \o padStart(toString(c.strike), 8, "0")

SymbolPrefixes == {":", "."}
SymbolUnderlyings ==
    { << "C" >>, << "P" >>, << "O", "P" >>, << "S", "P", "Y" >>,
      << "C", "P", "C" >> }
\* calendar dates as (yy, mm, dd)
SymbolDates == { << 24, 2, 29 >>, << 25, 12, 19 >>, << 30, 1, 31 >> }
\* strikes in thousandths of a dollar
SymbolStrikes == {500, 150000, 99999999}

SymbolContracts ==
    { [underlying |-> u, yy |-> d[1], mm |-> d[2], dd |-> d[3], kind |-> k,
       strike |-> s] :
        u \in SymbolUnderlyings, d \in SymbolDates, k \in {"C", "P"},
        s \in SymbolStrikes }

NoParse == [symbol |-> << >>, contract |-> << >>, parsed |-> << >>]

\* A symbol of the vendor's feed is parsed.
ParseSymbol(prefix, c) ==
    /\ parsedSymbol' = [symbol |-> occSymbol(prefix, c), contract |-> << c >>,
                        parsed |-> parseOptionSymbol(occSymbol(prefix, c))]
    /\ UNCHANGED << ingestVars, bcVars, classifierVars, queryVars, spotVars,
                    sideFlow, gexVars, barsReply, scanSnapshot, scanResponse >>


\* ---------------------------------------------------------------- option bars

\* A query parameter is << >> when the request does not carry it and
\* << value >> when it does; `?from=` carries the empty string.
BarsContractIds == {"O:SPY251219C00650000", "O:AAPL251219P00150000"}
BarsDates == { << >>, << "" >>, << "2025-01-01" >> }
BarsMultipliers == { << >>, << 5 >> }
BarsTimespans == { << >>, << "minute" >> }
BarsLimits == { << >>, << << "5", "0" >> >>, << << "a" >> >> }

BarsRequests ==
    [contractId : BarsContractIds, multiplier : BarsMultipliers,
     timespan : BarsTimespans, from : BarsDates, to : BarsDates,
     limit : BarsLimits]

\* What the vendor does with a request for aggregates: it answers with the
\* bars, answers with an error status, or the request dies without an answer.
BarsVendorOutcomes ==
    { [kind |-> "data", status |-> 200, resultsCount |-> << >>],
      [kind |-> "data", status |-> 200, resultsCount |-> << 3 >>],
      [kind |-> "error", status |-> 404, resultsCount |-> << >>],
      [kind |-> "none", status |-> 0, resultsCount |-> << >>] }

NoBars ==
    [req |-> << >>, status |-> 0, success |-> FALSE, error |-> "", count |-> 0,
     vendorRequests |-> << >>]

\* `!value` of a query parameter.
isMissing(param) == param = << >> \/ param = << "" >>

withDefault(param, default) == IF param = << >> THEN default ELSE param[1]

\* The request for aggregates the handler sends to the vendor.
barsVendorRequest(req) ==
    [contractId |-> req.contractId,
     multiplier |-> withDefault(req.multiplier, 1),
     timespan |-> withDefault(req.timespan, "day"),
     from |-> req.from[1],
     to |-> req.to[1],
     limit |-> parseInt(withDefault(req.limit, toString(120)))]

\* The answer of GET /api/options/bars/:contractId/range; hasApiKey tells
\* whether the environment holds MASSIVE_API_KEY or POLYGON_API_KEY.
barsRangeReply(hasApiKey, req, vendor) ==
    IF ~hasApiKey
    THEN [req |-> << req >>, status |-> 500, success |-> FALSE,
          error |-> "Failed to fetch bars", count |-> 0,
          vendorRequests |-> << >>]
    ELSE IF isMissing(req.from) \/ isMissing(req.to)
    THEN [req |-> << req >>, status |-> 400, success |-> FALSE,
          error |-> "Missing required parameters", count |-> 0,
          vendorRequests |-> << >>]
    ELSE IF vendor.kind = "data"
    THEN [req |-> << req >>, status |-> 200, success |-> TRUE, error |-> "",
          count |-> withDefault(vendor.resultsCount, 0),
          vendorRequests |-> << barsVendorRequest(req) >>]
    ELSE [req |-> << req >>,
          status |-> IF vendor.kind = "error" THEN vendor.status ELSE 500,
          success |-> FALSE, error |-> "Failed to fetch bars", count |-> 0,
          vendorRequests |-> << barsVendorRequest(req) >>]

\* GET /api/options/bars/:contractId/range, from the request to the answer.
GetBarsRange(hasApiKey, req, vendor) ==
    /\ barsReply' = barsRangeReply(hasApiKey, req, vendor)
    /\ UNCHANGED << ingestVars, bcVars, classifierVars, queryVars, spotVars,
                    sideFlow, gexVars, parsedSymbol, scanSnapshot, scanResponse >>


\* ---------------------------------------------------------------- live scanner

MaxSnapshot == 3
MaxScanTickers == 2
contractsPerPage == 1
AlertCap == 3

maxPages == 2

\* A contract of the vendor's snapshot, its symbol already parsed: expiresIn
\* is the number of days from today to its expiration day, the price is its
\* last trade's.
ScanContracts ==
    [underlying : {"AAPL", "SPY"}, expiresIn : {0 - 1, 0, 45},
     volume : {0, 100}, open_interest : {200}, price : {5}, strike : {100},
     type : {"CALL"}]

\* The entries of a comma-separated watchlist, none with surrounding blanks.
ScanWatchlists ==
    { << >>, << "SPY" >>, << "aapl", "", "SPY" >>, << "SPY", "SPY" >>,
      << "SPY", "SPY", "SPY", "AAPL" >> }

ScanRequests ==
    [watchlist : { << >> } \cup { << w >> : w \in ScanWatchlists },
     maxDte : { << >>, << << "3", "0" >> >> },
     minScore : { << >>, << << "0" >> >> },
     sortBy : { << >>, << "volume" >> }]

NoScan ==
    [req |-> << >>, spotPrice |-> 0, tickersScanned |-> << >>, alerts |-> << >>,
     stats |-> [totalScanned |-> 0, alertsTriggered |-> 0]]

\* `${dte}d`
dteText(dte) == [type |-> "string", text |-> toString(dte) \o << "d" >>, num |-> 0]
\* dte, the number
dteNumber(dte) == [type |-> "number", text |-> << >>, num |-> dte]

\* text.replace('d', ''): the text without its first d.
RECURSIVE replaceD(_)
replaceD(text) ==
    IF text = << >> THEN << >>
    ELSE IF Head(text) = "d" THEN Tail(text)
    ELSE << Head(text) >> \o replaceD(Tail(text))

clampScore(score) == IF score < 0 THEN 0 ELSE IF score > 10 THEN 10 ELSE score

\* The score of a trade whose days to expiration are dteNum.
scoreWithDte(trade, dteNum) ==
    clampScore(
        5
        + (IF trade.volume >= 5000 THEN 2
           ELSE IF trade.volume >= 1000 THEN 1
           ELSE IF trade.volume < 10 THEN 0 - 3 ELSE 0)
        + (IF trade.openInterest < 10 THEN 0 - 3
           ELSE IF trade.openInterest < 100 THEN 0 - 1
           ELSE IF trade.openInterest >= 1000 THEN 1 ELSE 0)
        + (IF trade.premiumRaw >= 1000000 THEN 2
           ELSE IF trade.premiumRaw >= 100000 THEN 1
           ELSE IF trade.premiumRaw < 10000 THEN 0 - 1 ELSE 0)
        + (IF trade.tradeType \in {"Sweep", "Block"} THEN 1 ELSE 0)
        + (IF trade.side \in {"Above Ask", "At Ask"} THEN 1 ELSE 0)
        + (IF dteNum = 0 THEN 0 - 1
           ELSE IF dteNum >= 30 /\ dteNum <= 60 THEN 1 ELSE 0))

\* << the score >>, or << >> where the call throws: trade.dte?.replace is a
\* function only when trade.dte is a string.
calculateSetupScoreAnyDte(trade) ==
    IF trade.dte.type = "string"
    THEN << scoreWithDte(trade, withDefault(parseInt(replaceD(trade.dte.text)), 0)) >>
    ELSE << scoreWithDte(trade, trade.dte.num) >>
calculateSetupScore(trade) ==
    IF trade.dte.type = "string"
    THEN << scoreWithDte(trade, withDefault(parseInt(replaceD(trade.dte.text)), 0)) >>
    ELSE << >>

\* The position estimate the scanner uses when the GEX filter is off.
gexPositionOf(strike, spotPrice) ==
    LET diff == IF strike >= spotPrice THEN strike - spotPrice
                ELSE spotPrice - strike
    IN IF diff * 100 < 2 * spotPrice THEN "at"
       ELSE IF strike < spotPrice THEN "below" ELSE "above"

\* The percentages of the trade plan; the entry is the contract's price.
generateTradePlan(contract, position, setupScore) ==
    [entry |-> contract.price,
     stopLossPercent |->
        IF contract.type = "CALL"
        THEN (IF position = "below" THEN 30 ELSE IF position = "at" THEN 40 ELSE 50)
        ELSE (IF position = "above" THEN 30 ELSE IF position = "at" THEN 40 ELSE 50),
     target1Percent |-> IF setupScore >= 9 THEN 50 ELSE 30,
     target2Percent |-> IF setupScore >= 9 THEN 100 ELSE 60]

\* Math.floor(contractOI * 0.05) when the day's volume is 0.
effectiveSizeOf(contract) ==
    IF contract.volume = 0 /\ contract.open_interest > 0
    THEN (contract.open_interest * 5) \div 100
    ELSE contract.volume

\* The size after the volume filter, << >> when the filter drops the contract.
sizeAfterVolumeFilter(contract, filters) ==
    IF filters.minVolume # << >> /\ filters.minVolume[1] > 0
       /\ effectiveSizeOf(contract) < filters.minVolume[1]
    THEN IF contract.volume = 0
            /\ contract.open_interest >= filters.minVolume[1] * 10
         THEN filters.minVolume
         ELSE << >>
    ELSE << effectiveSizeOf(contract) >>

\* What scoring is given for a contract that passed the size filter.
tradeDataOf(contract, size) ==
    [volume |-> contract.volume, openInterest |-> contract.open_interest,
     premiumRaw |-> contract.price * size * 100,
     tradeType |-> IF size > 5000 THEN "Sweep" ELSE "Normal",
     side |-> "", dte |-> dteNumber(contract.expiresIn)]

\* One turn of the loop over the fetched contracts: << the alert >>, or << >>
\* when the contract is skipped, by a filter or by the loop's catch.
alertOf(ticker, index, contract, filters, spotPrice) ==
    LET dte == contract.expiresIn
        size == sizeAfterVolumeFilter(contract, filters)
        premium == contract.price * size[1] * 100
        scored == calculateSetupScore(tradeDataOf(contract, size[1]))
        setupScore == IF scored[1] = 0 THEN 5 ELSE scored[1]
    IN IF dte < 0 THEN << >>
       ELSE IF filters.maxDte # << >> /\ filters.maxDte[1] > 0
               /\ dte > filters.maxDte[1] THEN << >>
       ELSE IF size = << >> THEN << >>
       ELSE IF contract.price <= 0 THEN << >>
       ELSE IF filters.minPremium # << >> /\ filters.minPremium[1] > 0
               /\ premium < filters.minPremium[1] THEN << >>
       ELSE IF scored = << >> THEN << >>
       ELSE IF filters.minScore # << >> /\ filters.minScore[1] > 0
               /\ setupScore < filters.minScore[1] - 1 THEN << >>
       ELSE << [symbol |-> ticker, index |-> index, dteRaw |-> dte,
                premiumRaw |-> premium, volume |-> contract.volume,
                score |-> setupScore,
                hasAlert |->
                    setupScore >= (IF filters.minScore = << >> \/ filters.minScore[1] = 0
                                   THEN 7 ELSE filters.minScore[1]),
                tradePlan |->
                    generateTradePlan(contract,
                        gexPositionOf(contract.strike, spotPrice), setupScore)] >>

RECURSIVE selectTicker(_, _)
selectTicker(snapshot, ticker) ==
    IF snapshot = << >> THEN << >>
    ELSE (IF Head(snapshot).underlying = ticker THEN << Head(snapshot) >>
          ELSE << >>) \o selectTicker(Tail(snapshot), ticker)

\* The contracts of the pages the scan of a ticker fetches.
fetchedContracts(snapshot, ticker) ==
    LET all == selectTicker(snapshot, ticker)
        limit == maxPages * contractsPerPage
    IN IF Len(all) <= limit THEN all ELSE SubSeq(all, 1, limit)

\* Array.prototype.sort with (a, b) => b[key] - a[key]: stable, descending.
RECURSIVE insertAlert(_, _, _)
insertAlert(sorted, a, key) ==
    IF sorted = << >> THEN << a >>
    ELSE IF Head(sorted)[key] >= a[key]
         THEN << Head(sorted) >> \o insertAlert(Tail(sorted), a, key)
         ELSE << a >> \o sorted

RECURSIVE sortAlerts(_, _)
sortAlerts(alerts, key) ==
    IF alerts = << >> THEN << >>
    ELSE insertAlert(sortAlerts(SubSeq(alerts, 1, Len(alerts) - 1), key),
                     alerts[Len(alerts)], key)

\* The alerts of one ticker.  The cut to the first AlertCap assigns to the
\* constant `alerts`: it throws, the function's catch logs it, and the sorted
\* alerts are returned whole.
scanTicker(snapshot, ticker, filters, spotPrice) ==
    LET allContracts == fetchedContracts(snapshot, ticker)
        alerts ==
            Flat([i \in 1 .. Len(allContracts) |->
                     alertOf(ticker, i, allContracts[i], filters, spotPrice)])
    IN IF spotPrice = 0 \/ allContracts = << >> THEN << >>
       ELSE IF Len(alerts) > AlertCap THEN sortAlerts(alerts, "score")
       ELSE sortAlerts(alerts, "score")

\* watchlist.split(',').map(t => t.trim().toUpperCase()).filter(t => t)
RECURSIVE watchlistTickers(_)
watchlistTickers(entries) ==
    IF entries = << >> THEN << >>
    ELSE (IF Head(entries) = "" THEN << >> ELSE << toUpperCase(Head(entries)) >>)
             \o watchlistTickers(Tail(entries))

scanFilters(req) ==
    [minVolume |-> parseInt(toString(50)),
     minPremium |-> parseInt(toString(5000)),
     maxDte |-> parseInt(withDefault(req.maxDte, toString(60))),
     minScore |-> parseInt(withDefault(req.minScore, toString(6)))]

\* The answer of GET /api/live-scanner.
scanResponseOf(snapshot, req, spotPrice) ==
    LET tickers ==
            watchlistTickers(withDefault(req.watchlist,
                                 << "SPY", "QQQ", "AAPL", "NVDA", "TSLA" >>))
        tickersToScan ==
            IF Len(tickers) <= MaxScanTickers THEN tickers
            ELSE SubSeq(tickers, 1, MaxScanTickers)
        allAlerts ==
            Flat([i \in 1 .. Len(tickersToScan) |->
                     scanTicker(snapshot, tickersToScan[i], scanFilters(req),
                                spotPrice)])
        sortBy == withDefault(req.sortBy, "score")
        sorted == IF sortBy \in {"score", "volume"}
                  THEN sortAlerts(allAlerts, sortBy) ELSE allAlerts
    IN [req |-> << req >>, spotPrice |-> spotPrice,
        tickersScanned |-> tickersToScan, alerts |-> sorted,
        stats |->
            [totalScanned |-> Len(sorted),
             alertsTriggered |->
                Cardinality({i \in DOMAIN sorted : sorted[i].hasAlert})]]

\* The vendor's snapshot lists one more contract.
ScanListing(c) ==
    /\ Len(scanSnapshot) < MaxSnapshot
    /\ scanSnapshot' = Append(scanSnapshot, c)
    /\ scanResponse' = NoScan
    /\ UNCHANGED << ingestVars, bcVars, classifierVars, queryVars, spotVars,
                    sideFlow, gexVars, parsedSymbol, barsReply >>

\* GET /api/live-scanner with the GEX filter off; spotPrice is 0 when
\* neither the spot request nor the snapshot gives the price.
GetLiveScanner(req, spotPrice) ==
    /\ scanResponse = NoScan
    /\ scanSnapshot # << >>
    /\ scanResponse' = scanResponseOf(scanSnapshot, req, spotPrice)
    /\ UNCHANGED << ingestVars, bcVars, classifierVars, queryVars, spotVars,
                    sideFlow, gexVars, parsedSymbol, barsReply, scanSnapshot >>


\* ---------------------------------------------------------------- specification

Init ==
    /\ tradesStore = << >>
    /\ nextSeq = 1
    /\ lastFlow = NoFlow
    /\ clearedCount = -1
    /\ now = 0
    /\ intervalOn = FALSE
    /\ isFetching = FALSE
    /\ runs = EmptyBag
    /\ background = EmptyBag
    /\ socks = [s \in SockIds |-> IF s = 1 THEN "connecting" ELSE "none"]
    /\ polygonWS = 1
    /\ isConnected = FALSE
    /\ reconnectTimers = 0
    /\ clients = << >>
    /\ clientSubscriptions = [c \in {} |-> {}]
    /\ readyState = [c \in Clients |-> "NONE"]
    /\ lastBroadcast = NoBroadcast
    /\ lastAck = NoAck
    /\ optedOut = [c \in Clients |-> {}]
    /\ recentTradesMap = << >>
    /\ ticks = << >>
    /\ flowRecords = << >>
    /\ lastReq = NoReq
    /\ lastResp = NoResp
    /\ prevResp = NoResp
    /\ spotNow = MinInterval
    /\ lastSpotPriceRequest = 0
    /\ spotSleepers = EmptyBag
    /\ spotRequests = << >>
    /\ sideFlow = NoSide
    /\ optionsChain = << >>
    /\ gexResponse = NoGex
    /\ parsedSymbol = NoParse
    /\ barsReply = NoBars
    /\ scanSnapshot = << >>
    /\ scanResponse = NoScan

NextWS ==
    \/ Tick
    \/ \E s \in SockIds : WsOpen(s)
    \/ \E s \in SockIds : WsAuthSuccess(s)
    \/ \E s \in SockIds : WsError(s)
    \/ \E s \in SockIds : WsClose(s)
    \/ ReconnectTimer
    \/ \E s \in SockIds, t \in 0 .. MaxTime : t <= now /\ WsTrade(s, t)

NextBackfill ==
    \/ Tick
    \/ Warmup
    \/ IntervalTick
    \/ GetOptionsFlow
    \/ PostRefresh
    \/ GetStats
    \/ \E run \in BagToSet(runs), t \in Tickers, resp \in Responses,
          k \in 0 .. PageLimit, hasNext \in BOOLEAN :
          /\ resp # "ok" => k = 0 /\ ~hasNext
          /\ Respond(run, t, resp, k, hasNext)
    \/ \E run \in BagToSet(runs), t \in Tickers : RetryAfter429(run, t)
    \/ \E run \in BagToSet(runs), ok \in BOOLEAN : ProcessFirst(run, ok)
    \/ \E n \in 1 .. BatchSize, ok \in BOOLEAN : ProcessBackground(n, ok)

NextBroadcast ==
    \/ \E c \in Clients : ClientConnect(c)
    \/ \E c \in Clients : Subscribe(c)
    \/ \E c \in Clients, raw \in FrameTickers : SubscribeTicker(c, raw)
    \/ \E c \in Clients, raw \in FrameTickers : UnsubscribeTicker(c, raw)
    \/ \E c \in Clients : ClientClosing(c)
    \/ \E c \in Clients : ClientError(c)
    \/ \E c \in Clients : ClientClose(c)
    \/ \E ticker \in FlowTickers, failing \in SUBSET Clients :
          broadcastTradeUpdate(ticker, failing)

NextClassifier ==
    \E size \in TickSizes, premium \in TickPremiums,
       exchange \in TickExchanges, timestamp \in TickTimes :
       ClassifyTick([size |-> size, premium |-> premium,
                     exchange |-> exchange, timestamp |-> timestamp])

NextQuery ==
    \/ \E rec \in FlowValues : StoreInsert(rec)
    \/ \E i \in 1 .. MaxStored : StoreDelete(i)
    \/ \E req \in Requests, fetched \in SpotAnswers, searchTrades \in SearchResults :
          /\ req.ticker => fetched = 0 /\ req.sortBy = "time"
          /\ ~req.ticker => searchTrades = << >>
          /\ GetFlows(req, fetched, searchTrades)

NextSpot ==
    \/ SpotTick
    \/ GetSpotPriceMiss
    \/ \E w \in 0 .. MaxSpotTime + MinInterval : SpotWake(w)

NextSide ==
    \/ \E price \in 1 .. MaxQuote, bid \in 0 .. MaxQuote, ask \in 0 .. MaxQuote :
          BuildTickFlow(price, bid, ask)
    \/ \E price \in 1 .. MaxQuote, bid \in 0 .. MaxQuote, ask \in 0 .. MaxQuote :
          BuildContractFlow(price, bid, ask)

NextGex ==
    \/ \E c \in ChainContracts : ChainListing(c)
    \/ \E spotPrice \in SpotPrices : GetGex(spotPrice)

NextSymbol ==
    \E prefix \in SymbolPrefixes, c \in SymbolContracts : ParseSymbol(prefix, c)

NextBars ==
    \E hasApiKey \in BOOLEAN, req \in BarsRequests, vendor \in BarsVendorOutcomes :
        GetBarsRange(hasApiKey, req, vendor)

NextScanner ==
    \/ \E c \in ScanContracts : ScanListing(c)
    \/ \E req \in ScanRequests, spotPrice \in {0, 100} : GetLiveScanner(req, spotPrice)

Next ==
    \/ NextWS \/ NextBackfill \/ NextBroadcast \/ NextClassifier \/ NextQuery
    \/ NextSpot \/ NextSide \/ NextGex
    \/ NextSymbol \/ NextBars \/ NextScanner

\* The whole system.
Spec == Init /\ [][Next]_vars

\* The vendor session and the ticks it delivers.
SpecWS == Init /\ [][NextWS]_vars

\* The REST backfill with overlapping runs, without the vendor session.
SpecBackfill == Init /\ [][NextBackfill]_vars

\* Both ingestion paths into the store, the backfill runs one at a time.
NextIngest ==
    \/ Tick
    \/ \E s \in SockIds : WsOpen(s)
    \/ \E s \in SockIds : WsAuthSuccess(s)
    \/ \E s \in SockIds : WsError(s)
    \/ \E s \in SockIds : WsClose(s)
    \/ ReconnectTimer
    \/ \E s \in SockIds, t \in 0 .. MaxTime : t <= now /\ WsTrade(s, t)
    \/ InFlight = 0 /\ Warmup
    \/ (isFetching \/ InFlight = 0) /\ IntervalTick
    \/ InFlight = 0 /\ GetOptionsFlow
    \/ InFlight = 0 /\ PostRefresh
    \/ InFlight = 0 /\ GetStats
    \/ \E run \in BagToSet(runs), t \in Tickers, resp \in Responses,
          k \in 0 .. PageLimit, hasNext \in BOOLEAN :
          /\ resp # "ok" => k = 0 /\ ~hasNext
          /\ Respond(run, t, resp, k, hasNext)
    \/ \E run \in BagToSet(runs), t \in Tickers : RetryAfter429(run, t)
    \/ \E run \in BagToSet(runs), ok \in BOOLEAN : ProcessFirst(run, ok)
    \/ \E n \in 1 .. BatchSize, ok \in BOOLEAN : ProcessBackground(n, ok)

SpecIngest == Init /\ [][NextIngest]_vars

\* The live WebSocket server and the broadcaster.
SpecBroadcast == Init /\ [][NextBroadcast]_vars

\* The trade-type classifier on the ticks of one contract.
SpecClassifier == Init /\ [][NextClassifier]_vars

\* The query engine over a store that ingestion writes to.
SpecQuery == Init /\ [][NextQuery]_vars

\* The spot-price rate limiter under concurrent cache misses.
SpecSpot == Init /\ [][NextSpot]_vars

\* The side label of the flows the two ingestion paths build.
SpecSide == Init /\ [][NextSide]_vars

\* The gamma exposure route and the chain it reads.
SpecGex == Init /\ [][NextGex]_vars

\* The parser of option symbols, on the symbols of valid contracts.
SpecSymbol == Init /\ [][NextSymbol]_vars

\* The route of the option bars.
SpecBars == Init /\ [][NextBars]_vars

\* The live scanner over the vendor's snapshots.
SpecScanner == Init /\ [][NextScanner]_vars

\* Fairness: timers fire; the ws library emits 'close' after 'error'.
FairSpecWS ==
    /\ SpecWS
    /\ WF_vars(ReconnectTimer)
    /\ \A s \in SockIds : WF_vars(socks[s] = "errored" /\ WsClose(s))

\* Fairness for the run the interval started: every request of it is answered
\* (axios times out after 15 s), every sleep ends, every awaited spot price
\* resolves.
FairSpecBackfill ==
    /\ SpecBackfill
    /\ WF_vars(\E run \in BagToSet(runs), t \in Tickers, resp \in Responses,
                  k \in 0 .. PageLimit, hasNext \in BOOLEAN :
                  run.guarded /\ Respond(run, t, resp, k, hasNext))
    /\ WF_vars(\E run \in BagToSet(runs), t \in Tickers :
                  run.guarded /\ RetryAfter429(run, t))
    /\ WF_vars(\E run \in BagToSet(runs), ok \in BOOLEAN :
                  run.guarded /\ ProcessFirst(run, ok))

\* ---------------------------------------------------------------- properties

\* C1: at every point, after any interleaving of WebSocket inserts, backfill
\* inserts (first and detached batches) and age sweeps, the store holds at most
\* MAX_TRADES records.
C1_StoreWithinCap == Len(tradesStore) <= MAX_TRADES

\* The store is full, a flow was built against the full store, and detached
\* batches are still processing.
C1_Witness ==
    /\ Len(tradesStore) = MAX_TRADES
    /\ lastFlow.atCap
    /\ BagCardinality(background) >= 1

\* C2 as stated: a flow built while the store holds MAX_TRADES records is
\* stored and exactly the oldest record is removed, on both paths.
C2_EveryPathEvictsOldest ==
    [][(nextSeq' = nextSeq + 1 /\ Len(tradesStore) = MAX_TRADES)
         => tradesStore' = Append(Tail(tradesStore),
                                  tradesStore'[Len(tradesStore')])
            /\ tradesStore'[Len(tradesStore')].seq = nextSeq]_vars

\* C2 amended: a flow built while the store holds MAX_TRADES records is, on the
\* WebSocket path, stored with exactly the oldest record removed; on the
\* backfill path it is not stored and the store is left as it was.
C2_WsEvictsOldestRestSkips ==
    [][(nextSeq' = nextSeq + 1 /\ Len(tradesStore) = MAX_TRADES)
         => /\ lastFlow'.seq = nextSeq
            /\ lastFlow'.path \in {"ws", "rest"}
            /\ lastFlow'.path = "ws" =>
                 /\ Len(tradesStore') = MAX_TRADES
                 /\ tradesStore'[MAX_TRADES].seq = nextSeq
                 /\ \A i \in 1 .. MAX_TRADES - 1 :
                       tradesStore'[i] = tradesStore[i + 1]
            /\ lastFlow'.path = "rest" => tradesStore' = tradesStore]_vars

\* MAX_TRADES + 1 flows were built, the last one on the WebSocket path against
\* a full store: the size is MAX_TRADES and the oldest survivor is insertion 2.
C2_Witness ==
    /\ lastFlow.path = "ws"
    /\ lastFlow.atCap
    /\ lastFlow.stored
    /\ lastFlow.seq = MAX_TRADES + 1
    /\ Len(tradesStore) = MAX_TRADES
    /\ tradesStore[1].seq = 2

\* C3: immediately after a backfill or live refresh started with the store
\* above the sweep threshold, the store has no record whose event time lies
\* more than MaxAge in the past.
C3_SweepLeavesNoOldRecord ==
    [][(InFlight' = InFlight + 1 /\ 2 * Len(tradesStore) > MAX_TRADES)
         => \A i \in 1 .. Len(tradesStore') :
               ~(tradesStore'[i].timestamp < now - MaxAge)]_vars

\* A run has just started after a sweep that deleted records and kept a record
\* that is exactly MaxAge old.
C3_Witness ==
    /\ clearedCount > 0
    /\ \E run \in BagToSet(runs) :
          run.pc = "fetch" /\ \A t \in Tickers : run.tk[t].page = 0
    /\ \E i \in 1 .. Len(tradesStore) : tradesStore[i].timestamp = now - MaxAge

\* C4 as stated: at most one backfill run is in progress at any time, whichever
\* trigger tries to start one.
C4_AtMostOneRun == InFlight <= 1

\* C5: at most one vendor socket that has not closed exists at any time.
C5_OneVendorSession == Cardinality(LiveSocks) <= 1

\* After a session that streamed flows was lost and closed, the reconnect
\* timer has fired and the one socket that exists is the new, connecting one.
C5_Witness ==
    /\ lastFlow.seq > 0
    /\ reconnectTimers = 0
    /\ Cardinality({s \in SockIds : socks[s] = "connecting"}) = 1

\* C6: whenever the vendor session has closed or reported an error, a new
\* connection attempt follows; the ingestor is never disconnected forever.
C6_ReconnectsAfterLoss ==
    (\A s \in SockIds : socks[s] \in {"none", "errored"})
        ~> (\E s \in SockIds : socks[s] = "connecting")

\* The session has closed and its reconnect timer is pending.
C6_Witness ==
    /\ \A s \in SockIds : socks[s] = "none"
    /\ reconnectTimers = 1
    /\ ~isConnected

\* C7 as stated: a page is never requested more than twice because of rate
\* limiting.
C7_PageRequestedAtMostTwice ==
    \A run \in BagToSet(runs) : \A t \in Tickers : run.tk[t].tries <= 2

\* C8 as stated: every run the interval started completes and clears the
\* in-flight flag, whatever the vendor answers.
C8_GuardReturnsToIdle == isFetching ~> ~isFetching

\* C9: a broadcast flow is sent to a connected subscriber exactly when its
\* subscription set is empty, has the flow's ticker, or has `*`; a subscriber
\* whose set is {AAPL} is sent AAPL flows and no others.
C9_PublishRule ==
    lastBroadcast # NoBroadcast =>
        /\ lastBroadcast.attempted \subseteq Registered
        /\ \A c \in Registered :
              readyState[c] = "OPEN" =>
                 /\ c \in lastBroadcast.attempted <=>
                      \/ subscriptionsOf(c) = {}
                      \/ lastBroadcast.ticker \in subscriptionsOf(c)
                      \/ "*" \in subscriptionsOf(c)
                 /\ subscriptionsOf(c) = {"AAPL"} =>
                      (c \in lastBroadcast.attempted <=> lastBroadcast.ticker = "AAPL")

\* A SPY flow was broadcast: the subscriber of {AAPL} was passed over and a
\* subscriber holding `*` next to another ticker was sent it.
C9_Witness ==
    /\ lastBroadcast.ticker = "SPY"
    /\ \E c \in Registered, d \in Registered :
          /\ readyState[c] = "OPEN" /\ subscriptionsOf(c) = {"AAPL"}
          /\ c \notin lastBroadcast.attempted
          /\ readyState[d] = "OPEN" /\ subscriptionsOf(d) = {"AAPL", "*"}
          /\ d \in lastBroadcast.attempted

\* C10: when a send to one subscriber fails, every other eligible subscriber
\* of the same broadcast still gets the flow, and the failing subscriber stays
\* registered with its subscription set unchanged.
C10_SendFailureIsolated ==
    [][lastBroadcast' # NoBroadcast
         => /\ lastBroadcast'.delivered
                 = lastBroadcast'.attempted \ lastBroadcast'.failed
            /\ clients' = clients
            /\ \A c \in lastBroadcast'.failed :
                  /\ c \in DOMAIN clientSubscriptions'
                  /\ c \in DOMAIN clientSubscriptions
                  /\ clientSubscriptions'[c] = clientSubscriptions[c]]_vars

\* The send to the first subscriber of the loop failed and a later one got the
\* flow.
C10_Witness ==
    /\ Len(clients) = 2
    /\ lastBroadcast.failed = {clients[1]}
    /\ lastBroadcast.delivered = {clients[2]}
    /\ subscriptionsOf(clients[1]) # {}

\* C11 as stated, for ticks that carry exchange and time and are not Blocks:
\* of two ticks at most SWEEP_WINDOW_MS apart, the later is a Sweep when the
\* exchanges differ; and a tick whose earlier neighbours within the window are
\* all on its own exchange is not made a Sweep by the ring test.
C11_SecondTickOnOtherExchangeIsSweep ==
    \A j \in 1 .. Len(ticks) :
       (usesRing(ticks[j].trade) /\ ~isBlock(ticks[j].trade)) =>
          /\ \A i \in 1 .. j - 1 :
                (/\ usesRing(ticks[i].trade) /\ ~isBlock(ticks[i].trade)
                 /\ Abs(ticks[i].trade.timestamp - ticks[j].trade.timestamp)
                      <= SWEEP_WINDOW_MS
                 /\ ticks[i].trade.exchange # ticks[j].trade.exchange)
                => ticks[j].tradeType = "Sweep"
          /\ (\A i \in 1 .. j - 1 :
                (/\ usesRing(ticks[i].trade)
                 /\ Abs(ticks[i].trade.timestamp - ticks[j].trade.timestamp)
                      <= SWEEP_WINDOW_MS)
                => ticks[i].trade.exchange = ticks[j].trade.exchange)
             => ~ticks[j].ringHit

\* C12 as stated: a tick that carries exchange and time, is not a Block and
\* finds no tick of another exchange within the window in the ring is a Split.
C12_RingMissIsSplit ==
    \A j \in 1 .. Len(ticks) :
       (/\ usesRing(ticks[j].trade)
        /\ ~isBlock(ticks[j].trade)
        /\ ~ticks[j].ringHit)
       => ticks[j].tradeType = "Split"

\* C13: the page of a store-backed query is exactly positions
\* [(page-1)*limit, page*limit) of the filtered store sorted descending by the
\* requested key, with totalCount the size of the filtered set, totalPages its
\* ceiling quotient by limit, and count the number of flows returned.
C13_PageOfSortedFilteredSet ==
    (lastResp # NoResp /\ ~lastReq.ticker) =>
        LET F == {i \in 1 .. Len(flowRecords) :
                     passesFilter(flowRecords[i], lastReq)}
            key(r) == sortKey(r, lastReq.sortBy)
            offset == (lastReq.page - 1) * lastReq.limit
            flows == lastResp.flows
        IN  /\ lastResp.page = lastReq.page
            /\ lastResp.totalCount = Cardinality(F)
            /\ lastResp.totalPages * lastReq.limit >= Cardinality(F)
            /\ (lastResp.totalPages - 1) * lastReq.limit < Cardinality(F)
            /\ lastResp.count = Len(flows)
            /\ Len(flows) = IF Cardinality(F) <= offset THEN 0
                            ELSE MinOf(lastReq.limit, Cardinality(F) - offset)
            /\ \A k \in 1 .. Len(flows) :
                  /\ \E i \in F :
                        /\ flowRecords[i].timestamp = flows[k].timestamp
                        /\ flowRecords[i].premiumRaw = flows[k].premiumRaw
                        /\ flowRecords[i].type = flows[k].type
                  /\ Cardinality({i \in F : key(flowRecords[i]) > key(flows[k])})
                        <= offset + k - 1
                  /\ Cardinality({i \in F : key(flowRecords[i]) >= key(flows[k])})
                        >= offset + k

\* Page 2 with limit 1, newest first, of a store whose older flow was
\* inserted first: the page holds that older flow.
C13_Witness ==
    /\ ~lastReq.ticker /\ lastReq.sortBy = "time"
    /\ lastReq.page = 2 /\ lastReq.limit = 1
    /\ Len(flowRecords) = 2
    /\ flowRecords[1].timestamp < flowRecords[2].timestamp
    /\ lastResp.count = 1 /\ lastResp.totalCount = 2 /\ lastResp.totalPages = 2
    /\ lastResp.flows[1].timestamp = flowRecords[1].timestamp

\* C14 as stated: every flow returned satisfies every active predicate of the
\* request, with or without a ticker in the request.
C14_ReturnedFlowsPassFilters ==
    lastResp # NoResp =>
        \A k \in 1 .. Len(lastResp.flows) : passesFilter(lastResp.flows[k], lastReq)

C16_SpotRequestsSpaced ==
    \A i \in 1 .. Len(spotRequests) : \A j \in i + 1 .. Len(spotRequests) :
       spotRequests[j] - spotRequests[i] >= MinInterval

\* C17 as stated: every flow stored or broadcast, from a tick or from a
\* snapshot, has a side label of the seven of the flow model.
C17_SideLabelInDomain ==
    sideFlow.side \in {"Above Ask", "At Ask", "To Ask", "Mid",
                       "To Bid", "At Bid", "Below Bid"}

\* C18: in the answer to a chain of calls only, the netGEX of every strike row
\* and the total netGEX are >= 0; in the answer to a chain of puts only they
\* are <= 0.
C18_NetGexSignFollowsType ==
    gexResponse.success =>
        LET rows == Flat([i \in 1 .. Len(gexResponse.byExpiration) |->
                             gexResponse.byExpiration[i].strikes])
            only(type) == \A c \in Range(gexResponse.chain) : c.contract_type = type
        IN  /\ only("call") =>
                  /\ \A i \in 1 .. Len(rows) : rows[i].netGEX >= 0
                  /\ gexResponse.summary.netGEX >= 0
            /\ only("put") =>
                  /\ \A i \in 1 .. Len(rows) : rows[i].netGEX <= 0
                  /\ gexResponse.summary.netGEX <= 0

\* A chain of puts only, at two strikes and with open interest, was answered
\* with a negative total.
C18_Witness ==
    /\ gexResponse.success
    /\ \A c \in Range(gexResponse.chain) : c.contract_type = "put"
    /\ Cardinality({c.strike : c \in Range(gexResponse.chain)}) >= 2
    /\ gexResponse.summary.netGEX < 0
    /\ \A i \in 1 .. Len(gexResponse.byExpiration) :
          \A k \in 1 .. Len(gexResponse.byExpiration[i].strikes) :
             gexResponse.byExpiration[i].strikes[k].netGEX < 0

\* The payout to the holders of the chain's contracts if the underlying
\* expires at K: max(0, K - strike) * OI for a call, max(0, strike - K) * OI
\* for a put.
holderPayout(contracts, K) ==
    Sum([i \in 1 .. Len(contracts) |->
            LET c == contracts[i]
                intrinsic == IF c.contract_type = "call" THEN K - c.strike
                             ELSE c.strike - K
            IN  (IF intrinsic > 0 THEN intrinsic ELSE 0) * c.open_interest])

\* C19: maxPain is a strike of the chain whose payout is minimal over the
\* chain's strikes, and it is the strike of the first contract, in the order
\* the route scans them, that has this minimal payout.
C19_MaxPainIsFirstMinimum ==
    gexResponse.success =>
        LET scanned == gexResponse.allContracts
            minimal(K) == \A c \in Range(scanned) :
                             holderPayout(scanned, K) <= holderPayout(scanned, c.strike)
            first == CHOOSE i \in 1 .. Len(scanned) :
                        /\ minimal(scanned[i].strike)
                        /\ \A j \in 1 .. i - 1 : ~minimal(scanned[j].strike)
        IN  /\ gexResponse.summary.maxPain \in {c.strike : c \in Range(gexResponse.chain)}
            /\ minimal(gexResponse.summary.maxPain)
            /\ gexResponse.summary.maxPain = scanned[first].strike

\* Two strikes tie for the minimal payout, which is positive, and a third
\* strike is worse.
C19_Witness ==
    /\ gexResponse.success
    /\ LET scanned == gexResponse.allContracts
           best == holderPayout(scanned, gexResponse.summary.maxPain)
       IN  /\ \E c \in Range(scanned) :
                 /\ c.strike # gexResponse.summary.maxPain
                 /\ holderPayout(scanned, c.strike) = best
           /\ \E c \in Range(scanned) : holderPayout(scanned, c.strike) > best
           /\ best > 0

\* C20 as stated: a contract without vendor gamma, or with open interest 0,
\* contributes to no strike row, heatmap cell or total, and the figures are
\* computed from the vendor's gamma, never from one derived from the implied
\* volatility.
C20_OnlyVendorGammaCounts ==
    gexResponse.success =>
        LET kept == SelectSeq(gexResponse.chain,
                              LAMBDA c : c.greeks.gamma # << >> /\ c.open_interest # 0)
            S == gexResponse.spotPrice
            vendorGEX(expDate, strike, type) ==
                LET cs == SelectSeq(kept, LAMBDA c : /\ c.expiration_date = expDate
                                                     /\ c.strike = strike
                                                     /\ c.contract_type = type)
                IN  Sum([i \in 1 .. Len(cs) |->
                            cs[i].greeks.gamma[1] * cs[i].open_interest * 100 * S * S])
            rowsOf(i) == gexResponse.byExpiration[i].strikes
        IN  /\ \A i \in 1 .. Len(gexResponse.byExpiration) :
                  \A k \in 1 .. Len(rowsOf(i)) :
                     LET row == rowsOf(i)[k]
                         expDate == gexResponse.byExpiration[i].expiration
                     IN  /\ \E c \in Range(kept) : /\ c.expiration_date = expDate
                                                   /\ c.strike = row.strike
                         /\ row.callGEX = vendorGEX(expDate, row.strike, "call")
                         /\ row.putGEX = 0 - vendorGEX(expDate, row.strike, "put")
                         /\ row.netGEX = row.callGEX + row.putGEX
            /\ \A strike \in DOMAIN gexResponse.heatmap :
                  \A i \in DOMAIN gexResponse.heatmap[strike] :
                     gexResponse.heatmap[strike][i] # << >> =>
                        \E c \in Range(kept) : c.strike = strike
            /\ gexResponse.summary.netGEX =
                  Sum([i \in 1 .. Len(kept) |->
                          (IF kept[i].contract_type = "call" THEN 1 ELSE -1)
                          * kept[i].greeks.gamma[1] * kept[i].open_interest
                          * 100 * S * S])

\* C26 as stated: every tick that reaches the ring test (it carries exchange
\* and timestamp and is not a Block) is the newest entry of the ring after its
\* classification, also when the ring test made it a Sweep.
C26_RingTestedTickIsAppended ==
    [][\A trade \in [size : TickSizes, premium : TickPremiums,
                     exchange : TickExchanges, timestamp : TickTimes] :
          (/\ Len(ticks') = Len(ticks) + 1
           /\ ticks'[Len(ticks')].trade = trade
           /\ usesRing(trade) /\ ~isBlock(trade))
          => /\ recentTradesMap' # << >>
             /\ recentTradesMap'[Len(recentTradesMap')] = trade]_vars

\* C25 as stated: a subscriber that sent unsubscribe-ticker T while its
\* subscription set was exactly {T}, and has sent no subscribe-ticker since,
\* is delivered no flow of ticker T.
C25_NoFlowAfterUnsubscribe ==
    lastBroadcast # NoBroadcast =>
        \A c \in Clients :
           lastBroadcast.ticker \in optedOut[c] => c \notin lastBroadcast.delivered

\* C29: a step that handles unsubscribe-ticker T from a subscriber leaves that
\* subscriber's set without T and `*` and otherwise as it was, leaves every
\* other subscriber's set and the registrations as they were, and sends the
\* subscriber an unsubscribed-ticker frame for T.
C29_UnsubscribeRemovesTickerAndStar ==
    [][\A c \in Clients, raw \in FrameTickers \ {""} :
          UnsubscribeTicker(c, raw) =>
             /\ subscriptionsOf(c)' = subscriptionsOf(c) \ {toUpperCase(raw), "*"}
             /\ \A d \in Clients \ {c} : subscriptionsOf(d)' = subscriptionsOf(d)
             /\ DOMAIN clientSubscriptions' = (DOMAIN clientSubscriptions) \cup {c}
             /\ clients' = clients
             /\ lastAck' = [to |-> c, type |-> "unsubscribed-ticker",
                            ticker |-> toUpperCase(raw)]]_vars

\* A subscriber has just unsubscribed from AAPL and holds SPY alone, while the
\* other subscriber still holds AAPL and `*`.
C29_Witness ==
    /\ lastAck.type = "unsubscribed-ticker" /\ lastAck.ticker = "AAPL"
    /\ subscriptionsOf(lastAck.to) = {"SPY"}
    /\ \E d \in Registered \ {lastAck.to} : subscriptionsOf(d) = {"AAPL", "*"}

\* C24 as stated: every flow that is broadcast, on the WebSocket path or on the
\* backfill path, is in the store when it is broadcast, also when the store is
\* at capacity.
C24_BroadcastFlowIsStored ==
    lastFlow # NoFlow => lastFlow.stored

\* C27 as stated: a step that serves GET /api/options-flow, with or without a
\* ticker, leaves the store's records, the backfill runs and the sweep
\* detector's ring as they were.
C27_QueryWritesNothing ==
    [][lastReq' # NoReq =>
          /\ flowRecords' = flowRecords
          /\ tradesStore' = tradesStore
          /\ runs' = runs
          /\ recentTradesMap' = recentTradesMap]_vars

C22_SymbolRoundTrip ==
    parsedSymbol # NoParse =>
        /\ parsedSymbol.parsed # << >>
        /\ LET c == parsedSymbol.contract[1]
               p == parsedSymbol.parsed[1]
           IN /\ p.ticker = c.underlying
              /\ p.type = (IF c.kind = "P" THEN "PUT" ELSE "CALL")
              /\ p.strike = << c.strike >>
              /\ p.expirationDate =
                    << [year |-> 2000 + c.yy, month |-> c.mm - 1, date |-> c.dd] >>

\* The symbol O.CPC240229P00000500, whose underlying holds both type letters,
\* has been parsed into a put of CPC.
C22_Witness ==
    /\ parsedSymbol.symbol =
          << "O", ".", "C", "P", "C", "2", "4", "0", "2", "2", "9", "P",
             "0", "0", "0", "0", "0", "5", "0", "0" >>
    /\ parsedSymbol.parsed # << >>
    /\ parsedSymbol.parsed[1].ticker = << "C", "P", "C" >>
    /\ parsedSymbol.parsed[1].type = "PUT"

\* C23: a request for the bars of a range that lacks `from` or `to` is answered
\* 400 with an error envelope, and no request goes to the vendor for it.
C23_MissingRangeIs400 ==
    barsReply # NoBars /\ (isMissing(barsReply.req[1].from)
                              \/ isMissing(barsReply.req[1].to)) =>
        /\ barsReply.status = 400
        /\ ~barsReply.success
        /\ barsReply.error # ""
        /\ barsReply.vendorRequests = << >>

\* The contract passes the scanner's filters: it is unexpired, within the
\* maximum days to expiration, large enough in size and premium and priced,
\* and its score, computed on the days to expiration in the text form the
\* scoring reads, is within one point of the minimum.
qualifies(contract, filters) ==
    LET size == sizeAfterVolumeFilter(contract, filters)
        scored ==
            calculateSetupScore(
                [tradeDataOf(contract, size[1])
                    EXCEPT !.dte = dteText(contract.expiresIn)])
        setupScore == IF scored[1] = 0 THEN 5 ELSE scored[1]
    IN /\ contract.expiresIn >= 0
       /\ ~(filters.maxDte # << >> /\ filters.maxDte[1] > 0
               /\ contract.expiresIn > filters.maxDte[1])
       /\ size # << >>
       /\ contract.price > 0
       /\ ~(filters.minPremium # << >> /\ filters.minPremium[1] > 0
               /\ contract.price * size[1] * 100 < filters.minPremium[1])
       /\ scored # << >>
       /\ ~(filters.minScore # << >> /\ filters.minScore[1] > 0
               /\ setupScore < filters.minScore[1] - 1)

\* C30: in a scan that has the spot price, every fetched contract that is
\* unexpired and passes the DTE, volume, premium and score filters is among
\* the alerts of its ticker, with a trade plan whose entry is its price.
C30_QualifyingContractIsAlerted ==
    scanResponse # NoScan /\ scanResponse.spotPrice > 0 =>
        \A t \in Range(scanResponse.tickersScanned) :
            LET fetched == fetchedContracts(scanSnapshot, t)
            IN \A i \in DOMAIN fetched :
                   qualifies(fetched[i], scanFilters(scanResponse.req[1])) =>
                       \E k \in DOMAIN scanResponse.alerts :
                           /\ scanResponse.alerts[k].symbol = t
                           /\ scanResponse.alerts[k].index = i
                           /\ scanResponse.alerts[k].tradePlan.entry = fetched[i].price

====
